---- MODULE Spec2Model ----
(***************************************************************************)
(* State-machine model of the MCP git server: the single-instance server   *)
(* (src/start-server.js, from line 87) and the multi-instance server       *)
(* (src/unnamed/part_001).  The two variants share the whole review-gate   *)
(* and push workflow; the variable `mode` selects the variant and the      *)
(* places where they differ are written as IF mode = "multi".              *)
(*                                                                         *)
(* Node runs the server on one thread.  A stdin 'data' event starts an     *)
(* async handler for the chunk; the handler runs until it awaits a git     *)
(* subprocess, and promise continuations (microtasks) run before the next  *)
(* event.  So the atomic steps are: a chunk arrives, a handler runs the    *)
(* next line up to its first subprocess, a subprocess settles and the      *)
(* handler runs on to the next subprocess or to the end of the call.       *)
(***************************************************************************)
EXTENDS Integers, Sequences, FiniteSets, TLC

\* ---------------------------------------------------------------- bounds
MaxRequests == 3        \* request lines received in one run (Spec)
MaxHandlers == 2        \* chunk handlers in flight at the same time
MaxCapRequests == 52    \* request lines received in one run (SpecCap)
MaxSaveRequests == 2    \* request lines received in one run (SpecSave)
MaxPageRequests == 3    \* request lines received in one run (SpecPage)
MaxLogRequests == 4     \* request lines received in one run (SpecLogs)
MaxRpcRequests == 3     \* request lines received in one run (SpecRpc)
MaxExitRequests == 3    \* request lines received in one run (SpecExit)
MaxStatusRequests == 3  \* request lines received in one run (SpecStatus)
MaxReposRequests == 4   \* request lines received in one run (SpecRepos)
MaxRestartRequests == 3 \* request lines received in one run (SpecRestart)
MaxHistRequests == 3    \* request lines received in one run (SpecHist)
MaxData == 2            \* 'data' events per stream of one subprocess (SpecExec)
MaxLiveRequests == 1    \* request lines received in one run (SpecLive)
MaxSliceRequests == 3   \* request lines received in one run (SpecSlice)
MaxDispatchRequests == 3  \* request lines received in one run (SpecDispatch)
MaxChunkRequests == 2     \* request lines the client writes in one run (SpecChunk)

\* ------------------------------------------------------ program constants
MAX_LOGS == 1000
MAX_PUSH_HISTORY == 100
HistLoaded == 99        \* pushes of earlier runs in the history file (SpecHist)
MAX_PENDING_CHANGES == 50

\* ------------------------------------------------------------- JS values
\* A JavaScript value carries its type; a string is a sequence of characters.
Undef == [t |-> "undefined"]
Str(s) == [t |-> "string", v |-> s]
Num(n) == [t |-> "number", v |-> n]
Arr(a) == [t |-> "array", v |-> a]

Null == [t |-> "null"]

\* the id of a response to a line that carried none: null
NullId == 0

\* JS truthiness: !x is ~Truthy(x)
Truthy(x) ==
  CASE x.t = "undefined" -> FALSE
    [] x.t = "string" -> x.v # <<>>
    [] x.t = "number" -> x.v # 0
    [] OTHER -> TRUE

IsWhite(c) == c = " "

RECURSIVE TrimStart(_)
TrimStart(s) ==
  IF s = <<>> THEN <<>>
  ELSE IF IsWhite(Head(s)) THEN TrimStart(Tail(s)) ELSE s

RECURSIVE TrimEnd(_)
TrimEnd(s) ==
  IF s = <<>> THEN <<>>
  ELSE IF IsWhite(s[Len(s)]) THEN TrimEnd(SubSeq(s, 1, Len(s) - 1)) ELSE s

\* String.prototype.trim on the characters of a string
Trim(s) == TrimEnd(TrimStart(s))

\* Array.prototype.splice(n) after unshift: keep the first n elements
Splice(list, n) == IF Len(list) > n THEN SubSeq(list, 1, n) ELSE list

\* the cap check refusing the new element once the list is full
UnshiftDropsNewest(list, e, cap) ==
  IF Len(list) >= cap THEN list ELSE <<e>> \o list

\* Array.prototype.unshift followed by the cap check
Unshift(list, e, cap) == Splice(<<e>> \o list, cap)

Min(a, b) == IF a < b THEN a ELSE b

\* ------------------------------------------------------------ the state
VARIABLES
  stdin,            \* what the client wrote that no 'data' event has delivered yet
  mode,             \* "single" (server-final.js) or "multi" (server-muit-final.js)
  logDir,           \* TRUE when a log directory is configured (getLogConfig succeeds)
  multiInstance,    \* the context table the launcher built and the server parsed
  gitCommand,       \* the executeGitCommand call followed event by event
  pendingChanges,   \* in-memory pending changes, newest first
  changesReviewed,  \* the review flag
  pushHistory,      \* in-memory push history, newest first
  operationLogs,    \* in-memory operation log, newest first
  changesFile,      \* pending-changes[.<repo>].json, by repo name
  pushHistoryFile,  \* push-history[.<repo>].json, by repo name
  handlers,         \* the stdin 'data' handlers in flight
  reqCount,         \* request lines received so far
  stdout,           \* the response lines written to standard output
  events,           \* journal of the effects on the review gate: passes, reviews, clears
  exitTimer         \* TRUE while shutdown's setTimeout(process.exit) is pending

vars == <<stdin, mode, logDir, multiInstance, gitCommand, pendingChanges, changesReviewed, pushHistory, operationLogs,
          changesFile, pushHistoryFile, handlers, reqCount, stdout, events, exitTimer>>

\* ------------------------------------------------------- configuration
\* The startup table of the multi-instance server (process.env.MULTI_INSTANCE).
\* A property an entry does not set is ''; the second entry names its own
\* remote and push flags.
MULTI_INSTANCE ==
  << [REPO_NAME |-> "web", PROJECT_PATH |-> "/web", LOCAL_BRANCH |-> "main",
      REMOTE_BRANCH |-> "main", REMOTE_NAME |-> "", GIT_PUSH_FLAGS |-> <<>>],
     [REPO_NAME |-> "api", PROJECT_PATH |-> "/api", LOCAL_BRANCH |-> "dev",
      REMOTE_BRANCH |-> "release", REMOTE_NAME |-> "upstream",
      GIT_PUSH_FLAGS |-> <<"-", "f">>] >>

\* no executeGitCommand call is being followed
NoCommand == [state |-> "none"]

\* PROJECT_PATH and REPO_NAME of the single-instance server
PROJECT_PATH == "/proj"
REPO_NAME == ""

\* process.env of the single-instance server: remote, branches, push flags
\* (here ' -f  -v')
ENV ==
  [REMOTE_NAME |-> "origin", LOCAL_BRANCH |-> "main", REMOTE_BRANCH |-> "prod",
   GIT_PUSH_FLAGS |-> <<" ", "-", "f", " ", " ", "-", "v">>]

\* x || d for strings: '' is falsy
Or(x, d) == IF x = "" THEN d ELSE x

\* the characters of a string, put together again
RECURSIVE Join(_)
Join(s) == IF s = <<>> THEN "" ELSE Head(s) \o Join(Tail(s))

\* String.prototype.split(/\s+/): the pieces between the runs of blanks
RECURSIVE SplitWs(_)
SplitWs(s) ==
  LET blanks == {i \in 1..Len(s) : IsWhite(s[i])}
  IN IF blanks = {} THEN <<Join(s)>>
     ELSE LET i == CHOOSE j \in blanks : \A k \in blanks : j <= k
          IN <<Join(SubSeq(s, 1, i - 1))>>
               \o SplitWs(TrimStart(SubSeq(s, i, Len(s))))

RepoNames == {""} \cup {MULTI_INSTANCE[i].REPO_NAME : i \in 1..Len(MULTI_INSTANCE)}

\* MULTI_INSTANCE.find(i => i.REPO_NAME === repo), on the table in memory:
\* the matching entries
FindInstance(repo) ==
  {i \in 1..Len(multiInstance) : multiInstance[i].REPO_NAME = repo}

\* The toolContext handleRequest builds for a tools/call; in the single-instance
\* server the context is the process-wide configuration.
RepoNotFound(args) ==
  /\ mode = "multi"
  /\ args.repo # ""
  /\ Len(multiInstance) > 0
  /\ FindInstance(args.repo) = {}

\* a context that is the first row of the table whatever repo names
ToolContextFirstRow(args) ==
  IF mode = "single"
  THEN [REPO_NAME |-> REPO_NAME, PROJECT_PATH |-> PROJECT_PATH,
        LOCAL_BRANCH |-> ENV.LOCAL_BRANCH, REMOTE_BRANCH |-> ENV.REMOTE_BRANCH,
        REMOTE_NAME |-> ENV.REMOTE_NAME, GIT_PUSH_FLAGS |-> ENV.GIT_PUSH_FLAGS]
  ELSE IF args.repo # "" /\ Len(multiInstance) > 0 /\ FindInstance(args.repo) # {}
       THEN [REPO_NAME |-> multiInstance[1].REPO_NAME,
             PROJECT_PATH |-> multiInstance[1].PROJECT_PATH,
             LOCAL_BRANCH |-> multiInstance[1].LOCAL_BRANCH,
             REMOTE_BRANCH |-> multiInstance[1].REMOTE_BRANCH,
             REMOTE_NAME |-> "", GIT_PUSH_FLAGS |-> <<>>]
       ELSE [REPO_NAME |-> "", PROJECT_PATH |-> "", LOCAL_BRANCH |-> "",
             REMOTE_BRANCH |-> "", REMOTE_NAME |-> "", GIT_PUSH_FLAGS |-> <<>>]

\* The multi-instance handleRequest copies PROJECT_PATH, REPO_NAME,
\* LOCAL_BRANCH and REMOTE_BRANCH of the entry found (and LANGUAGE); the
\* context has no REMOTE_NAME and no GIT_PUSH_FLAGS.
ToolContext(args) ==
  IF mode = "single"
  THEN [REPO_NAME |-> REPO_NAME, PROJECT_PATH |-> PROJECT_PATH,
        LOCAL_BRANCH |-> ENV.LOCAL_BRANCH, REMOTE_BRANCH |-> ENV.REMOTE_BRANCH,
        REMOTE_NAME |-> ENV.REMOTE_NAME, GIT_PUSH_FLAGS |-> ENV.GIT_PUSH_FLAGS]
  ELSE IF args.repo # "" /\ Len(multiInstance) > 0 /\ FindInstance(args.repo) # {}
       THEN LET i == CHOOSE j \in FindInstance(args.repo) :
                       \A k \in FindInstance(args.repo) : j <= k
            IN [REPO_NAME |-> multiInstance[i].REPO_NAME,
                PROJECT_PATH |-> multiInstance[i].PROJECT_PATH,
                LOCAL_BRANCH |-> multiInstance[i].LOCAL_BRANCH,
                REMOTE_BRANCH |-> multiInstance[i].REMOTE_BRANCH,
                REMOTE_NAME |-> "", GIT_PUSH_FLAGS |-> <<>>]
       ELSE [REPO_NAME |-> "", PROJECT_PATH |-> "", LOCAL_BRANCH |-> "",
             REMOTE_BRANCH |-> "", REMOTE_NAME |-> "", GIT_PUSH_FLAGS |-> <<>>]

\* git_push: pushFlags and pushArgs
PushArgs(ctx) ==
  LET flags == Trim(IF ctx.GIT_PUSH_FLAGS = <<>>
                    THEN <<"-", "-", "p", "r", "o", "g", "r", "e", "s", "s">>
                    ELSE ctx.GIT_PUSH_FLAGS)
  IN <<"push", Or(ctx.REMOTE_NAME, "origin"),
       Or(ctx.LOCAL_BRANCH, "main") \o ":" \o Or(ctx.REMOTE_BRANCH, "main")>>
       \o (IF flags # <<>> THEN SplitWs(flags) ELSE <<>>)

\* the argument vector of each git subprocess
GitArgs(cmd, req) ==
  CASE cmd = "status" -> <<"status", "--porcelain">>
    [] cmd = "add" -> <<"add", ".">>
    [] cmd = "commit" -> <<"commit", "-m", Join(req.args.message.v)>>
    [] cmd = "push" -> PushArgs(ToolContext(req.args))
    [] cmd = "pull" -> <<"pull", Or(ToolContext(req.args).REMOTE_NAME, "origin"),
                         Or(ToolContext(req.args).REMOTE_BRANCH, "main")>>
    [] cmd = "executeGitCommand" -> req.args.argv
    [] OTHER -> <<>>

\* ---------------------------------------------------------- persistence
NoFile == [exists |-> FALSE, data |-> <<>>]
File(d) == [exists |-> TRUE, data |-> d]

\* a save that writes nothing
WriteFileSkipped(files, repoName, data) == files

\* fs.writeFileSync inside try/catch: without a log directory getLogConfig
\* throws, the catch swallows it and nothing is written.
WriteFile(files, repoName, data) ==
  IF logDir THEN [files EXCEPT ![repoName] = File(data)] ELSE files

\* loadPendingChanges / loadPushHistory at startup: the file of repo name ''
LoadFile(files) ==
  IF logDir /\ files[""].exists THEN files[""].data ELSE <<>>

\* logRequest: unshift the entry, cap the in-memory log
LogRequest(logs, method, error) ==
  Unshift(logs, [method |-> method, error |-> error], MAX_LOGS)

\* the entry with success set whatever the error
PushEntrySuccessAlways(id, message, ctx, error, exitCode) ==
  [id |-> id, repo_name |-> ctx.REPO_NAME, project_path |-> ctx.PROJECT_PATH,
   message |-> message, success |-> TRUE, error |-> error,
   exit_code |-> exitCode]

\* recordPushHistory: the entry it builds
PushEntry(id, message, ctx, error, exitCode) ==
  [id |-> id, repo_name |-> ctx.REPO_NAME, project_path |-> ctx.PROJECT_PATH,
   message |-> message, success |-> (error = ""), error |-> error,
   exit_code |-> exitCode]

\* the entry put behind the others
RecordPushHistoryAtEnd(history, entry) ==
  Splice(Append(history, entry), MAX_PUSH_HISTORY)

\* recordPushHistory: unshift, cap
RecordPushHistory(history, entry) == Unshift(history, entry, MAX_PUSH_HISTORY)

\* ------------------------------------------------------------- requests
\* The arguments object of a tools/call; repo is "" when absent (absent and ''
\* are both falsy, and the code only tests it for truth and equality).
Args(repo, message, files, content, limit, offset) ==
  [repo |-> repo, message |-> message, files |-> files, content |-> content,
   limit |-> limit, offset |-> offset]

\* `arguments` sent as a JSON array: it has none of the named parameters
ArgvArgs(argv) ==
  [repo |-> "", message |-> Undef, files |-> Undef, content |-> Undef,
   limit |-> Undef, offset |-> Undef, argv |-> argv]

\* Array.isArray(args)
HasArgv(args) == "argv" \in DOMAIN args

\* A stdin line: valid is FALSE when JSON.parse throws on it
Call(name, args) ==
  [valid |-> TRUE, jsonrpc |-> "2.0", method |-> "tools/call", name |-> name,
   args |-> args]

WithId(line, id) ==
  [id |-> id, valid |-> line.valid, jsonrpc |-> line.jsonrpc,
   method |-> line.method, name |-> line.name, args |-> line.args]

\* a request of another method, with no params
Request(jsonrpc, method) ==
  [valid |-> TRUE, jsonrpc |-> jsonrpc, method |-> method, name |-> "",
   args |-> Args("", Undef, Undef, Undef, Undef, Undef)]

\* a line that is not JSON
Garbage ==
  [valid |-> FALSE, jsonrpc |-> "", method |-> "", name |-> "",
   args |-> Args("", Undef, Undef, Undef, Undef, Undef)]

\* the methods of handleRequest that the model dispatches
Methods ==
  {"tools/call", "ping", "shutdown", "notifications/initialized",
   "notifications/exit"}

\* TOOL_PREFIX of the environment: none configured
TOOL_PREFIX == ""

\* the tool names a client may send; a prefixed name loses its prefix
SentNames ==
  {"", "git_push", "save_changes", "get_pending_changes",
   "get_operation_logs", "git_status", "no_such_tool", "Unknown method"}

ActualMethodName(name) ==
  IF TOOL_PREFIX # "" /\ \E t \in SentNames : name = TOOL_PREFIX \o "_" \o t
  THEN CHOOSE t \in SentNames : name = TOOL_PREFIX \o "_" \o t
  ELSE name

\* The tool operations of FinalMCPServer that the model dispatches to
ToolNames ==
  {"git_push", "save_changes", "get_pending_changes", "get_operation_logs",
   "git_status", "get_push_history"}

\* the names tools/list returns, TOOL_PREFIX being empty
ListedTools ==
  {"git_push", "get_push_history", "get_operation_logs", "save_changes",
   "get_pending_changes", "git_status", "git_diff", "git_add", "git_log"}
    \cup (IF mode = "multi" THEN {"git_pull", "set_log_dir"} ELSE {})

\* the names under which this[name] is truthy: the methods of FinalMCPServer,
\* the two fields the constructor sets to a non-empty string, and constructor
Properties ==
  ListedTools \cup {"executeGitCommand", "handleRequest", "start",
                    "name", "version", "constructor"}

\* repo argument a caller sends: none to the single-instance server, a
\* configured repository to the multi-instance server
RepoArgs == IF mode = "single" THEN {""} ELSE {"web"}

MsgOk == Str(<<"m">>)
FilesOk == Arr(<<Str(<<"a">>)>>)
ContentOk == Str(<<"c">>)

PushLines ==
  {Call("git_push", Args(r, MsgOk, Undef, Undef, Undef, Undef)) : r \in RepoArgs}
    \cup {Call("git_push", Args("", Undef, Undef, Undef, Undef, Undef))}

SaveLines ==
  {Call("save_changes", Args(r, Undef, FilesOk, ContentOk, Undef, Undef)) :
     r \in RepoArgs}

ReviewLines ==
  {Call("get_pending_changes", Args(r, Undef, Undef, Undef, Undef, Undef)) :
     r \in RepoArgs}

\* a call that names a repository the startup table does not hold
UnknownRepoLines ==
  IF mode = "single" THEN {}
  ELSE {Call("git_push", Args("nope", MsgOk, Undef, Undef, Undef, Undef))}

\* the request lines a client sends in Spec
Lines == PushLines \cup SaveLines \cup ReviewLines \cup UnknownRepoLines

\* the stdin chunks: a line in a chunk of its own, or two pushes in one chunk
Chunks ==
  {<<l>> : l \in Lines}
    \cup {<<l, l>> : l \in {k \in PushLines : k.args.message = MsgOk}}

\* ------------------------------------------------------------- handlers
\* No subprocess: the value of a handler's child while it awaits none
NoChild == [cmd |-> "", cwd |-> "", args |-> <<>>]

\* A handler: where it stands (pc), the lines of its chunk not yet answered,
\* and the git subprocess it awaits (child).  While it awaits one, pc names
\* the await of git_push it is suspended at: "status", "add" (the add after a
\* good status), "add_catch" (the add in the catch of the status block),
\* "commit", "push".
Idle == [pc |-> "idle", lines |-> <<>>, child |-> NoChild]

H == 1..MaxHandlers

\* Promise continuations run before the next event is taken from the loop:
\* while a handler can run, no chunk arrives and no subprocess settles.
NoReady == \A h \in H : handlers[h].pc # "ready"

Cur(h) == Head(handlers[h].lines)

\* a handler that gives up the rest of its chunk
PopDropsRest(h) == [handlers EXCEPT ![h] = Idle]

\* the handler goes on to its next line, or ends
Pop(h) ==
  LET rest == Tail(handlers[h].lines)
  IN [handlers EXCEPT ![h] =
        IF rest = <<>> THEN Idle
        ELSE [pc |-> "ready", lines |-> rest, child |-> NoChild]]

\* the git command awaited at each await of git_push
CmdAt(pc) == IF pc = "add_catch" THEN "add" ELSE pc

\* spawn('git', args, {cwd}) and await: the handler waits for the subprocess
Await(h, cmd, pc) ==
  [handlers EXCEPT ![h].pc = pc,
                   ![h].child = [cmd |-> cmd,
                      cwd |-> ToolContext(Head(handlers[h].lines).args).PROJECT_PATH,
                      args |-> GitArgs(cmd, Head(handlers[h].lines))]]

\* handleRequest's catch: the JSON-RPC error code of a thrown message
\* error.message.includes(needle), the message being `${msg}: ${detail}`
Includes(msg, detail, needle) == msg = needle \/ detail = needle

ErrorCode(msg, detail) ==
  IF Includes(msg, detail, "Server not initialized") THEN -32002
  ELSE IF Includes(msg, detail, "Unknown method") THEN -32601
  ELSE IF Includes(msg, detail, "Unsupported JSON-RPC version") THEN -32600
  ELSE -32603

\* JSON.stringify(toolResult, null, 2): the text that parses back to v
Stringify(v) == [json |-> v]

\* tools/call wraps what the operation returned in one text block
WrapResult(payload) ==
  [content |-> <<[type |-> "text", text |-> Stringify(payload)]>>]

ResultResponse(id, payload) ==
  [jsonrpc |-> "2.0", id |-> id, result |-> WrapResult(payload)]

\* The error response.  The message of an error thrown as `${msg}: ${detail}`
\* is kept in its two parts.
ErrorResponse(id, msg, detail) ==
  [jsonrpc |-> "2.0", id |-> id,
   error |-> [code |-> ErrorCode(msg, detail), message |-> msg, detail |-> detail]]

\* A tool returned: handleRequest's finally journals the call, the response
\* carries the result, the data handler writes it to stdout.
Return(h, logs, payload) ==
  /\ operationLogs' = LogRequest(logs, Cur(h).method, "")
  /\ stdout' = Append(stdout, ResultResponse(Cur(h).id, payload))
  /\ handlers' = Pop(h)

\* A tool or the dispatcher threw: finally journals the call with the error,
\* the outer catch journals 'error' and builds the error response.
Throw(h, logs, msg, detail) ==
  /\ operationLogs' =
       LogRequest(LogRequest(logs, Cur(h).method, msg), "error", msg)
  /\ stdout' = Append(stdout, ErrorResponse(Cur(h).id, msg, detail))
  /\ handlers' = Pop(h)

\* ----------------------------------------------------------- the journal
\* The order of the effects that bear on the review gate: e is "pass" (a
\* git_push went through the gate to its subprocesses), "review" (the flag was
\* set) or "clear" (the pending list was emptied); tool is the operation, pend
\* the length of the pending list once the effect has happened.
Ev(e, id, tool, pend) == [e |-> e, id |-> id, tool |-> tool, pend |-> pend]

\* ---------------------------------------------------------------- start
\* A pending change left in pending-changes.json by an earlier run
Entry0 ==
  [id |-> 0, repo_name |-> "", project_path |-> "",
   files |-> <<<<"a">>>>, content |-> <<"c">>, reviewed |-> FALSE]

\* start(): the single-instance server journals 'server_start', the
\* multi-instance server journals nothing
StartLogs ==
  IF mode = "single" THEN LogRequest(<<>>, "server_start", "") ELSE <<>>

\* Module load, construction and start(): the lists are loaded from the files
\* of repo name '', the review flag is false, nothing is in flight.
Init ==
  /\ mode \in {"single", "multi"}
  /\ logDir \in (IF mode = "single" THEN {TRUE} ELSE BOOLEAN)
  /\ multiInstance = MULTI_INSTANCE
  /\ gitCommand = NoCommand
  /\ stdin = <<>>
  /\ changesFile \in
       {[r \in RepoNames |-> IF r = "" THEN f ELSE NoFile] :
          f \in (IF logDir THEN {NoFile, File(<<Entry0>>)} ELSE {NoFile})}
  /\ pushHistoryFile = [r \in RepoNames |-> NoFile]
  /\ pendingChanges = LoadFile(changesFile)
  /\ pushHistory = LoadFile(pushHistoryFile)
  /\ changesReviewed = FALSE
  /\ operationLogs = StartLogs
  /\ handlers = [h \in H |-> Idle]
  /\ reqCount = 0
  /\ stdout = <<>>
  /\ events = <<>>
  /\ exitTimer = FALSE

\* a restart that finds the review flag as the last run left it
RestartKeepsReview ==
  /\ pendingChanges' = LoadFile(changesFile)
  /\ pushHistory' = LoadFile(pushHistoryFile)
  /\ operationLogs' = StartLogs
  /\ handlers' = [h \in H |-> Idle]
  /\ exitTimer' = FALSE
  /\ UNCHANGED <<stdin, mode, logDir, multiInstance, gitCommand,
                 changesReviewed, changesFile, pushHistoryFile, reqCount,
                 stdout, events>>

\* The process is stopped and started again: the module loads the two lists
\* from the files of repo name '', everything else in memory starts afresh;
\* the files, and what was written to stdout, stay.
Restart ==
  /\ pendingChanges' = LoadFile(changesFile)
  /\ pushHistory' = LoadFile(pushHistoryFile)
  /\ changesReviewed' = FALSE
  /\ operationLogs' = StartLogs
  /\ handlers' = [h \in H |-> Idle]
  /\ exitTimer' = FALSE
  /\ UNCHANGED <<stdin, mode, logDir, multiInstance, gitCommand, changesFile, pushHistoryFile, reqCount, stdout,
                 events>>

\* ------------------------------------------------------- stdin 'data'
\* A chunk arrives and its handler starts; the lines get the ids of their order.
Receive(chunks, max) ==
  /\ NoReady
  /\ \E h \in H :
       /\ handlers[h].pc = "idle"
       /\ \A g \in H : g < h => handlers[g].pc # "idle"
       /\ \E c \in chunks :
            /\ reqCount + Len(c) <= max
            /\ handlers' = [handlers EXCEPT ![h] =
                 [pc |-> "ready", child |-> NoChild,
                  lines |-> [i \in 1..Len(c) |-> WithId(c[i], reqCount + i)]]]
            /\ reqCount' = reqCount + Len(c)
  /\ UNCHANGED <<stdin, mode, logDir, multiInstance, gitCommand, exitTimer, pendingChanges, changesReviewed, pushHistory,
                 operationLogs, changesFile, pushHistoryFile, stdout, events>>

\* ----------------------------------------------------- handleRequest
\* What handleRequest throws before it invokes a tool operation, "" if nothing
DispatchError(req) ==
  IF req.jsonrpc # "2.0" THEN "Unsupported JSON-RPC version"
  ELSE IF req.method \notin Methods THEN "Unknown method"
  ELSE IF req.method # "tools/call" THEN ""
  ELSE IF req.name = "" THEN "Missing tool name"
  ELSE IF ActualMethodName(req.name) \notin Properties THEN "Unknown tool"
  ELSE IF RepoNotFound(req.args) THEN "Repository not found"
  ELSE ""

\* what the thrown message carries after its colon: `Unknown method: ${method}`,
\* `Unknown tool: ${name}`
DispatchDetail(req) ==
  CASE DispatchError(req) = "Unknown method" -> req.method
    [] DispatchError(req) = "Unknown tool" -> req.name
    [] OTHER -> ""

\* handleRequest runs on a line that JSON.parse accepted
Decoded(h) == handlers[h].pc = "ready" /\ Cur(h).valid

\* tools/call reaches this[name](args, toolContext)
Dispatches(h, name) ==
  /\ Decoded(h)
  /\ Cur(h).method = "tools/call"
  /\ DispatchError(Cur(h)) = ""
  /\ ActualMethodName(Cur(h).name) = name

\* handleRequest answers with an error and no operation runs.  The version
\* check journals under its own name and sits outside the inner try/finally.
RejectRequest(h) ==
  /\ Decoded(h)
  /\ DispatchError(Cur(h)) # ""
  /\ LET msg == DispatchError(Cur(h))
     IN IF msg = "Unsupported JSON-RPC version"
        THEN /\ operationLogs' =
                  LogRequest(LogRequest(operationLogs, msg, msg), "error", msg)
             /\ stdout' = Append(stdout, ErrorResponse(Cur(h).id, msg, ""))
             /\ handlers' = Pop(h)
        ELSE Throw(h, operationLogs, msg, DispatchDetail(Cur(h)))
  /\ UNCHANGED <<stdin, mode, logDir, multiInstance, gitCommand, exitTimer, pendingChanges, changesReviewed, pushHistory,
                 changesFile, pushHistoryFile, reqCount, events>>

\* ping: journalled by the branch and by finally, answered {pong: true}
Ping(h) ==
  /\ Decoded(h)
  /\ DispatchError(Cur(h)) = ""
  /\ Cur(h).method = "ping"
  /\ operationLogs' = LogRequest(LogRequest(operationLogs, "ping", ""), "ping", "")
  /\ stdout' = Append(stdout,
       [jsonrpc |-> "2.0", id |-> Cur(h).id, result |-> [pong |-> TRUE]])
  /\ handlers' = Pop(h)
  /\ UNCHANGED <<stdin, mode, logDir, multiInstance, gitCommand, exitTimer, pendingChanges, changesReviewed,
                 pushHistory, changesFile, pushHistoryFile, reqCount, events>>

\* notifications/initialized: journalled twice, never answered
NotificationsInitialized(h) ==
  /\ Decoded(h)
  /\ DispatchError(Cur(h)) = ""
  /\ Cur(h).method = "notifications/initialized"
  /\ operationLogs' =
       LogRequest(LogRequest(operationLogs, "notifications/initialized", ""),
                  "notifications/initialized", "")
  /\ handlers' = Pop(h)
  /\ UNCHANGED <<stdin, mode, logDir, multiInstance, gitCommand, exitTimer, pendingChanges, changesReviewed,
                 pushHistory, changesFile, pushHistoryFile, reqCount, stdout,
                 events>>

\* shutdown: the exit timer is set, finally journals the call, the response
\* with result null is written; the handler goes on with its chunk
Shutdown(h) ==
  /\ Decoded(h)
  /\ DispatchError(Cur(h)) = ""
  /\ Cur(h).method = "shutdown"
  /\ exitTimer' = TRUE
  /\ operationLogs' = LogRequest(operationLogs, "shutdown", "")
  /\ stdout' = Append(stdout,
       [jsonrpc |-> "2.0", id |-> Cur(h).id, result |-> Null])
  /\ handlers' = Pop(h)
  /\ UNCHANGED <<stdin, mode, logDir, multiInstance, gitCommand, pendingChanges, changesReviewed, pushHistory,
                 changesFile, pushHistoryFile, reqCount, events>>

\* process.exit(0): every handler in flight is gone, with the lines it had
\* left and the subprocess it awaited
Exited == [pc |-> "exited", lines |-> <<>>, child |-> NoChild]

\* notifications/exit: process.exit(0) inside the branch, before finally
NotificationsExit(h) ==
  /\ Decoded(h)
  /\ DispatchError(Cur(h)) = ""
  /\ Cur(h).method = "notifications/exit"
  /\ handlers' = [g \in H |-> Exited]
  /\ exitTimer' = FALSE
  /\ UNCHANGED <<stdin, mode, logDir, multiInstance, gitCommand, pendingChanges, changesReviewed, pushHistory,
                 operationLogs, changesFile, pushHistoryFile, reqCount, stdout,
                 events>>

\* the timer of shutdown fires, once the handler that set it has yielded
ExitTimerFires ==
  /\ exitTimer
  /\ NoReady
  /\ handlers' = [g \in H |-> Exited]
  /\ exitTimer' = FALSE
  /\ UNCHANGED <<stdin, mode, logDir, multiInstance, gitCommand, pendingChanges, changesReviewed, pushHistory,
                 operationLogs, changesFile, pushHistoryFile, reqCount, stdout,
                 events>>

\* a handler that gives up its chunk at a line it cannot parse
MalformedLineAbortsChunk(h) ==
  /\ handlers[h].pc = "ready"
  /\ ~Cur(h).valid
  /\ stdout' = Append(stdout,
       [jsonrpc |-> "2.0", id |-> NullId,
        error |-> [code |-> -32603, message |-> "Internal error",
                   detail |-> "Unexpected token"]])
  /\ handlers' = [handlers EXCEPT ![h] = Idle]
  /\ UNCHANGED <<stdin, mode, logDir, multiInstance, gitCommand, exitTimer, pendingChanges, changesReviewed,
                 pushHistory, operationLogs, changesFile, pushHistoryFile,
                 reqCount, events>>

\* JSON.parse throws on the line: the data handler's inner catch answers
\* `Internal error: ...` with id null and the loop goes on to the next line
MalformedLine(h) ==
  /\ handlers[h].pc = "ready"
  /\ ~Cur(h).valid
  /\ stdout' = Append(stdout,
       [jsonrpc |-> "2.0", id |-> NullId,
        error |-> [code |-> -32603, message |-> "Internal error",
                   detail |-> "Unexpected token"]])
  /\ handlers' = Pop(h)
  /\ UNCHANGED <<stdin, mode, logDir, multiInstance, gitCommand, exitTimer, pendingChanges, changesReviewed,
                 pushHistory, operationLogs, changesFile, pushHistoryFile,
                 reqCount, events>>

\* ----------------------------------------------------- pending changes
\* a slice that always starts at the first element
SliceFromStart(list, from, to) ==
  [i \in 1..(IF to - from < Len(list) THEN to - from ELSE Len(list)) |-> list[i]]

\* Array.prototype.slice(from, to) for 0 <= from, 0 <= to
Slice(list, from, to) ==
  IF from >= Min(to, Len(list)) THEN <<>>
  ELSE SubSeq(list, from + 1, Min(to, Len(list)))

\* a defaulted parameter: const { x = d } = params
Default(x, d) == IF x.t = "undefined" THEN d ELSE x

\* pendingChanges.filter(c => c.project_path === targetInstance.PROJECT_PATH)
\* of the multi-instance server; the single-instance server returns the list.
FilteredChanges(args) ==
  IF mode = "multi" /\ args.repo # "" /\ Len(multiInstance) > 0
     /\ FindInstance(args.repo) # {}
  THEN SelectSeq(pendingChanges,
         LAMBDA c : c.project_path = ToolContext(args).PROJECT_PATH)
  ELSE pendingChanges

\* save_changes: the first validation that fails, "" when the arguments pass
SaveError(args) ==
  IF ~(args.files.t = "array" /\ Len(args.files.v) > 0)
  THEN "files parameter must be a non-empty array"
  ELSE IF ~(Truthy(args.content) /\ args.content.t = "string")
  THEN "content parameter must be a non-empty string"
  ELSE IF ~(\A i \in 1..Len(args.files.v) :
              args.files.v[i].t = "string" /\ Trim(args.files.v[i].v) # <<>>)
  THEN "all files must be non-empty strings"
  ELSE ""

\* save_changes: the change entry; Date.now() is modelled by the call's ordinal
ChangeEntry(id, args, ctx) ==
  [id |-> id, repo_name |-> ctx.REPO_NAME, project_path |-> ctx.PROJECT_PATH,
   files |-> [i \in 1..Len(args.files.v) |-> Trim(args.files.v[i].v)],
   content |-> Trim(args.content.v), reviewed |-> FALSE]

\* the branch of the multi-instance save_changes that reviews instead of saving
SaveIsReview(args) ==
  /\ mode = "multi"
  /\ args.repo # ""
  /\ args.files.t = "undefined"
  /\ args.content.t = "undefined"

SaveChanges(h) ==
  /\ Dispatches(h, "save_changes")
  /\ LET req == Cur(h)
         args == req.args
         ctx == ToolContext(args)
     IN IF SaveIsReview(args)
        THEN LET limit == Default(args.limit, Num(1000))
                 found == FilteredChanges(args)
             IN /\ changesReviewed' = TRUE
                /\ events' = Append(events,
                     Ev("review", req.id, "save_changes", Len(pendingChanges)))
                /\ Return(h, LogRequest(operationLogs, "save_changes", ""),
                     [success |-> TRUE, changes |-> Slice(found, 0, limit.v),
                      total |-> Len(found)])
                /\ UNCHANGED <<pendingChanges, changesFile>>
        ELSE IF SaveError(args) # ""
        THEN /\ Throw(h, operationLogs, SaveError(args), "")
             /\ UNCHANGED <<pendingChanges, changesFile, changesReviewed, events>>
        ELSE LET entry == ChangeEntry(req.id, args, ctx)
                 list == Unshift(pendingChanges, entry, MAX_PENDING_CHANGES)
             IN /\ pendingChanges' = list
                /\ changesFile' = WriteFile(changesFile, ctx.REPO_NAME, list)
                /\ Return(h, LogRequest(operationLogs, "save_changes", ""),
                     [success |-> TRUE, change_id |-> entry.id,
                      files_count |-> Len(args.files.v),
                      content_length |-> Len(args.content.v)])
                /\ UNCHANGED <<changesReviewed, events>>
  /\ UNCHANGED <<stdin, mode, logDir, multiInstance, gitCommand, exitTimer, pushHistory, pushHistoryFile, reqCount>>

\* the parameter check with limit 0 let through
PageErrorZeroLimit(limit, offset) ==
  IF limit.t # "number" \/ limit.v < 0 \/ limit.v > 1000
  THEN "limit parameter must be between 1-1000"
  ELSE IF offset.t # "number" \/ offset.v < 0
  THEN "offset parameter must be greater than or equal to 0"
  ELSE ""

\* get_pending_changes / get_operation_logs: the parameter check
PageError(limit, offset) ==
  IF limit.t # "number" \/ limit.v < 1 \/ limit.v > 1000
  THEN "limit parameter must be between 1-1000"
  ELSE IF offset.t # "number" \/ offset.v < 0
  THEN "offset parameter must be greater than or equal to 0"
  ELSE ""

\* a get_pending_changes that hands the changes over and forgets them
GetPendingChangesDrains(h) ==
  /\ Dispatches(h, "get_pending_changes")
  /\ LET req == Cur(h)
         found == FilteredChanges(req.args)
     IN /\ changesReviewed' = TRUE
        /\ pendingChanges' = <<>>
        /\ events' = Append(events,
             Ev("review", req.id, "get_pending_changes", 0))
        /\ Return(h, LogRequest(operationLogs, "get_pending_changes", ""),
             [changes |-> found, total |-> Len(found), limit |-> 1000,
              offset |-> 0, hasMore |-> FALSE])
  /\ UNCHANGED <<stdin, mode, logDir, multiInstance, gitCommand, exitTimer, pushHistory, changesFile, pushHistoryFile,
                 reqCount>>

GetPendingChanges(h) ==
  /\ Dispatches(h, "get_pending_changes")
  /\ LET req == Cur(h)
         limit == Default(req.args.limit, Num(1000))
         offset == Default(req.args.offset, Num(0))
         found == FilteredChanges(req.args)
     IN IF PageError(limit, offset) # ""
        THEN /\ Throw(h, operationLogs, PageError(limit, offset), "")
             /\ UNCHANGED <<changesReviewed, events>>
        ELSE /\ changesReviewed' = TRUE
             /\ events' = Append(events,
                  Ev("review", req.id, "get_pending_changes", Len(pendingChanges)))
             /\ Return(h, LogRequest(operationLogs, "get_pending_changes", ""),
                  [changes |-> Slice(found, offset.v, offset.v + limit.v),
                   total |-> Len(found), limit |-> limit.v, offset |-> offset.v,
                   hasMore |-> (offset.v + limit.v < Len(found))])
  /\ UNCHANGED <<stdin, mode, logDir, multiInstance, gitCommand, exitTimer, pendingChanges, pushHistory, changesFile,
                 pushHistoryFile, reqCount>>

\* get_operation_logs: a slice of the in-memory log; the operation itself
\* journals nothing, handleRequest's finally journals the call afterwards
GetOperationLogs(h) ==
  /\ Dispatches(h, "get_operation_logs")
  /\ LET req == Cur(h)
         limit == Default(req.args.limit, Num(50))
         offset == Default(req.args.offset, Num(0))
     IN IF PageError(limit, offset) # ""
        THEN Throw(h, operationLogs, PageError(limit, offset), "")
        ELSE Return(h, operationLogs,
               [logs |-> Slice(operationLogs, offset.v, offset.v + limit.v),
                total |-> Len(operationLogs), limit |-> limit.v,
                offset |-> offset.v,
                hasMore |-> (offset.v + limit.v < Len(operationLogs))])
  /\ UNCHANGED <<stdin, mode, logDir, multiInstance, gitCommand, exitTimer, pendingChanges, changesReviewed, pushHistory,
                 changesFile, pushHistoryFile, reqCount, events>>

\* get_push_history: the first five entries and the length; the operation
\* journals nothing itself (the message text is left out)
GetPushHistory(h) ==
  /\ Dispatches(h, "get_push_history")
  /\ Return(h, operationLogs,
       [total |-> Len(pushHistory), records |-> Slice(pushHistory, 0, 5)])
  /\ UNCHANGED <<stdin, mode, logDir, multiInstance, gitCommand, exitTimer, pendingChanges, changesReviewed,
                 pushHistory, changesFile, pushHistoryFile, reqCount, events>>

\* ------------------------------------------------- executeGitCommand
\* How a subprocess call settles: the first of close(code), 'error' and the
\* timer.  stdout holds the lines git printed, stderr what the code looks for.
Closed(code, out, err) ==
  [how |-> "close", code |-> code, stdout |-> out, stderr |-> err]
SpawnFailed == [how |-> "error", code |-> 1, stdout |-> <<>>, stderr |-> ""]
TimedOut == [how |-> "timeout", code |-> 1, stdout |-> <<>>, stderr |-> ""]

\* the promise resolving on close whatever the exit code
ResolvedAnyExit(o) == o.how = "close"

\* the promise resolves only on close with exit code 0
Resolved(o) == o.how = "close" /\ o.code = 0

\* err.error || err.message of a rejection
ErrText(o) ==
  CASE o.how = "close" -> "Command exited with code 1"
    [] o.how = "error" -> "spawn git ENOENT"
    [] OTHER -> "Command timed out"

Failures == {Closed(1, <<>>, ""), SpawnFailed, TimedOut}

\* `git status --porcelain` prints one line per entry: the index status, the
\* work-tree status, a blank and the path.  A line is modelled by its first
\* two characters.
StatusLines ==
  {<<"A", " ">>, <<" ", "M">>, <<"?", "?">>, <<"R", " ">>, <<"M", "M">>}
StatusOutputs == {<<>>} \cup {<<l>> : l \in StatusLines}

\* line.startsWith('A ') || line.startsWith('M ') || line.startsWith('D ')
StartsStaged(line) == line[1] \in {"A", "M", "D"} /\ line[2] = " "

\* statusResult.stdout.split('\n').some(...)
HasStagedChanges(out) == \E i \in 1..Len(out) : StartsStaged(out[i])

StatusOutcomes == {Closed(0, out, "") : out \in StatusOutputs} \cup Failures
AddOutcomes == {Closed(0, <<>>, "")} \cup Failures
CommitOutcomes ==
  {Closed(0, <<>>, ""), Closed(1, <<>>, "nothing to commit")} \cup Failures
PushOutcomes == {Closed(0, <<>>, "")} \cup Failures

\* -------------------------------------------------------------- git_status
\* git_status starts `git status --porcelain` in the context's directory
GitStatusBegin(h) ==
  /\ Dispatches(h, "git_status")
  /\ handlers' = Await(h, "status", "git_status")
  /\ UNCHANGED <<stdin, mode, logDir, multiInstance, gitCommand, exitTimer, pendingChanges, changesReviewed,
                 pushHistory, operationLogs, changesFile, pushHistoryFile,
                 reqCount, stdout, events>>

\* the subprocess settles: the result tells whether git printed anything, a
\* rejection is rethrown as `Git status failed: ...`
GitStatusSettles(h) ==
  /\ NoReady
  /\ handlers[h].pc = "git_status"
  /\ \E o \in StatusOutcomes :
       IF Resolved(o)
       THEN Return(h, operationLogs,
              [success |-> TRUE, has_changes |-> (o.stdout # <<>>),
               project_path |-> handlers[h].child.cwd])
       ELSE Throw(h, operationLogs, "Git status failed", ErrText(o))
  /\ UNCHANGED <<stdin, mode, logDir, multiInstance, gitCommand, exitTimer, pendingChanges, changesReviewed,
                 pushHistory, changesFile, pushHistoryFile, reqCount, events>>

\* --------------------------------------------------------------- git_push
\* the message check at the top of git_push
MessageError(args) ==
  IF ~Truthy(args.message) \/ args.message.t # "string"
  THEN "Missing message parameter" ELSE ""

\* the gate with its length test off by one
GateClosedOffByOne == ~changesReviewed /\ Len(pendingChanges) > 1

\* the review gate
GateClosed == ~changesReviewed /\ Len(pendingChanges) > 0

\* the guidance without its error mark
GuidanceNotError == [isError |-> FALSE, errorCode |-> "CHANGES_NOT_REVIEWED",
                     pending |-> Len(pendingChanges)]

\* the result the gate returns: the texts are reduced to the pending count
Guidance == [isError |-> TRUE, errorCode |-> "CHANGES_NOT_REVIEWED",
             pending |-> Len(pendingChanges)]

\* git_push recording the blocked call in the push history
GitPushBeginRecords(h) ==
  /\ Dispatches(h, "git_push")
  /\ LET req == Cur(h)
         ctx == ToolContext(req.args)
     IN IF MessageError(req.args) # ""
        THEN /\ Throw(h, operationLogs, MessageError(req.args), "")
             /\ UNCHANGED <<events, pushHistory>>
        ELSE IF GateClosed
        THEN /\ Return(h, operationLogs, Guidance)
             /\ pushHistory' = RecordPushHistory(pushHistory,
                  PushEntry(req.id, req.args.message.v, ctx,
                            "CHANGES_NOT_REVIEWED", [t |-> "null"]))
             /\ UNCHANGED events
        ELSE /\ events' = Append(events,
                  Ev("pass", req.id, "git_push", Len(pendingChanges)))
             /\ handlers' = Await(h, CmdAt("status"), "status")
             /\ UNCHANGED <<operationLogs, stdout, pushHistory>>
  /\ UNCHANGED <<stdin, mode, logDir, multiInstance, gitCommand, exitTimer, pendingChanges, changesReviewed,
                 changesFile, pushHistoryFile, reqCount>>

\* git_push up to its first await: message check, review gate, status subprocess
GitPushBegin(h) ==
  /\ Dispatches(h, "git_push")
  /\ LET req == Cur(h)
     IN IF MessageError(req.args) # ""
        THEN /\ Throw(h, operationLogs, MessageError(req.args), "")
             /\ UNCHANGED events
        ELSE IF GateClosed
        THEN /\ Return(h, operationLogs, Guidance)
             /\ UNCHANGED events
        ELSE /\ events' = Append(events,
                  Ev("pass", req.id, "git_push", Len(pendingChanges)))
             /\ handlers' = Await(h, CmdAt("status"), "status")
             /\ UNCHANGED <<operationLogs, stdout>>
  /\ UNCHANGED <<stdin, mode, logDir, multiInstance, gitCommand, exitTimer, pendingChanges, changesReviewed, pushHistory,
                 changesFile, pushHistoryFile, reqCount>>

\* a sub-step of git_push settles and the next subprocess is started
Proceed(h, pc) ==
  /\ handlers' = Await(h, CmdAt(pc), pc)
  /\ UNCHANGED <<stdin, mode, logDir, multiInstance, gitCommand, exitTimer, pendingChanges, changesReviewed, pushHistory,
                 operationLogs, changesFile, pushHistoryFile, reqCount, stdout,
                 events>>

\* status settled: add unless something is staged; a failed status goes to
\* the catch, which adds as well
AfterStatus(o) ==
  IF Resolved(o)
  THEN IF ~HasStagedChanges(o.stdout) THEN "add" ELSE "commit"
  ELSE "add_catch"

StatusSettles(h) ==
  /\ NoReady
  /\ handlers[h].pc = "status"
  /\ \E pc \in {AfterStatus(o) : o \in StatusOutcomes} : Proceed(h, pc)

\* the add after a good status settled: its failure lands in the same catch
\* as a failed status, which runs add again
AfterAdd(o) == IF Resolved(o) THEN "commit" ELSE "add_catch"

AddSettles(h) ==
  /\ NoReady
  /\ handlers[h].pc = "add"
  /\ \E pc \in {AfterAdd(o) : o \in AddOutcomes} : Proceed(h, pc)

\* the add inside the catch settled: its failure is only logged
AfterAddCatch(o) == "commit"

AddCatchSettles(h) ==
  /\ NoReady
  /\ handlers[h].pc = "add_catch"
  /\ \E pc \in {AfterAddCatch(o) : o \in AddOutcomes} : Proceed(h, pc)

\* a failed commit, other than "nothing to commit", going to the outer catch
AfterCommitAborts(o) ==
  IF Resolved(o) \/ o.stderr = "nothing to commit" THEN "push" ELSE "catch"

\* commit settled: every failure is only logged, the push follows
AfterCommit(o) == "push"

CommitSettles(h) ==
  /\ NoReady
  /\ handlers[h].pc = "commit"
  /\ \E pc \in {AfterCommit(o) : o \in CommitOutcomes} : Proceed(h, pc)

\* cleared_changes of the success result: pendingChanges.length, read after
\* clearPendingChanges has emptied the list
ClearedChanges(before, after) == Len(after)

\* clearPendingChanges: the list after it
ClearPendingChanges(list) == <<>>

\* the push subprocess resolved: journal, history, clear, reset, result
PushSucceeded(h, o) ==
  LET req == Cur(h)
      ctx == ToolContext(req.args)
      entry == PushEntry(req.id, req.args.message.v, ctx, "", Num(o.code))
      history == RecordPushHistory(pushHistory, entry)
      list == ClearPendingChanges(pendingChanges)
  IN /\ pushHistory' = history
     /\ pushHistoryFile' = WriteFile(pushHistoryFile, ctx.REPO_NAME, history)
     /\ pendingChanges' = list
     /\ changesFile' = WriteFile(changesFile, ctx.REPO_NAME, list)
     /\ changesReviewed' = FALSE
     /\ events' = Append(events, Ev("clear", req.id, "git_push", Len(list)))
     /\ Return(h, LogRequest(operationLogs, "git_push", ""),
          [success |-> TRUE, message |-> req.args.message.v,
           cleared_changes |-> ClearedChanges(pendingChanges, list),
           review_status_reset |-> TRUE, exit_code |-> o.code])

\* the catch of git_push without the reset of the review flag
PushFailedKeepsReview(h, o) ==
  LET req == Cur(h)
      ctx == ToolContext(req.args)
      entry == PushEntry(req.id, req.args.message.v, ctx, ErrText(o), [t |-> "null"])
      history == RecordPushHistory(pushHistory, entry)
  IN /\ pushHistory' = history
     /\ pushHistoryFile' = WriteFile(pushHistoryFile, ctx.REPO_NAME, history)
     /\ Throw(h, LogRequest(operationLogs, "git_push", ErrText(o)),
          "Git push failed", ErrText(o))
     /\ UNCHANGED <<changesReviewed, pendingChanges, changesFile, events>>

\* the push subprocess rejected: the catch of git_push resets, journals,
\* records and rethrows
PushFailed(h, o) ==
  LET req == Cur(h)
      ctx == ToolContext(req.args)
      entry == PushEntry(req.id, req.args.message.v, ctx, ErrText(o), [t |-> "null"])
      history == RecordPushHistory(pushHistory, entry)
  IN /\ changesReviewed' = FALSE
     /\ pushHistory' = history
     /\ pushHistoryFile' = WriteFile(pushHistoryFile, ctx.REPO_NAME, history)
     /\ Throw(h, LogRequest(operationLogs, "git_push", ErrText(o)),
          "Git push failed", ErrText(o))
     /\ UNCHANGED <<pendingChanges, changesFile, events>>

\* the push subprocess settled
PushSettles(h) ==
  /\ NoReady
  /\ handlers[h].pc = "push"
  /\ \E o \in PushOutcomes :
       IF Resolved(o) THEN PushSucceeded(h, o) ELSE PushFailed(h, o)
  /\ UNCHANGED <<stdin, mode, logDir, multiInstance, gitCommand, exitTimer, reqCount>>

\* ------------------------------------------------------------------ Spec
Step(h) ==
  \/ RejectRequest(h)
  \/ SaveChanges(h)
  \/ GetPendingChanges(h)
  \/ GitPushBegin(h)
  \/ StatusSettles(h)
  \/ AddSettles(h)
  \/ AddCatchSettles(h)
  \/ CommitSettles(h)
  \/ PushSettles(h)

Next ==
  \/ Receive(Chunks, MaxRequests)
  \/ \E h \in H : Step(h)

Spec == Init /\ [][Next]_vars

\* ------------------------------------------------------- observations
\* This step writes the response to the line handler h is working on
Answers(h) ==
  /\ handlers[h].lines # <<>>
  /\ Len(stdout') = Len(stdout) + 1
  /\ stdout'[Len(stdout')].id = Cur(h).id

\* the response this step writes
Response == stdout'[Len(stdout')]

IsResult(r) == "result" \in DOMAIN r /\ "error" \notin DOMAIN r

\* what the operation returned, read back from the text block of a result
Payload(r) == r.result.content[1].text.json
IsError(r) == "error" \in DOMAIN r /\ "result" \notin DOMAIN r

\* a response carrying the review guidance
IsBlocked(r) ==
  /\ "result" \in DOMAIN r
  /\ "errorCode" \in DOMAIN Payload(r)
  /\ Payload(r).errorCode = "CHANGES_NOT_REVIEWED"

\* a response carrying the success result of git_push
IsPushed(r) ==
  /\ "result" \in DOMAIN r
  /\ "cleared_changes" \in DOMAIN Payload(r)

\* a response carrying the failure of git_push
IsPushFailure(r) == "error" \in DOMAIN r /\ r.error.message = "Git push failed"

\* a response carrying the rejection of the message
IsMessageRejection(r) ==
  "error" \in DOMAIN r /\ r.error.message = "Missing message parameter"

\* the review flag is false and changes are pending
Unreviewed == changesReviewed = FALSE /\ Len(pendingChanges) > 0

\* the message of the call handler h is about to make is a non-empty string
ValidMessage(h) ==
  Cur(h).args.message.t = "string" /\ Cur(h).args.message.v # <<>>

\* handler h has left the call without a subprocess
StartsNoSubprocess(h) ==
  handlers'[h].child = NoChild /\ handlers'[h].pc \in {"idle", "ready"}

\* This step ends a call of the git_push operation by handler h
CompletesGitPush(h) ==
  /\ handlers[h].lines # <<>>
  /\ Cur(h).name = "git_push"
  /\ DispatchError(Cur(h)) = ""
  /\ Answers(h)

\* ------------------------------------------------------------------- C1
\* C1 as stated: whenever git_push is called while the review flag is false
\* and changes are pending, the call starts no git subprocess and returns the
\* review guidance.
C1_BlockedWheneverUnreviewed ==
  [][\A h \in H :
       (Dispatches(h, "git_push") /\ Unreviewed)
         => (StartsNoSubprocess(h) /\ Answers(h) /\ IsBlocked(Response))]_vars

\* C1, amended: whenever git_push is called with a non-empty string message
\* while the review flag is false and changes are pending, the call starts no
\* git subprocess and returns the review guidance; with any other message the
\* call is rejected with "Missing message parameter", and it starts no
\* subprocess either.
C1_BlockedWhenUnreviewedAndMessageValid ==
  [][\A h \in H :
       (Dispatches(h, "git_push") /\ Unreviewed)
         => /\ StartsNoSubprocess(h)
            /\ Answers(h)
            /\ IF ValidMessage(h) THEN IsBlocked(Response)
                                  ELSE IsMessageRejection(Response)]_vars

\* a blocked git_push has been answered, changes are still pending and no
\* handler awaits a subprocess
C1_Witness ==
  /\ \E i \in DOMAIN stdout : IsBlocked(stdout[i])
  /\ Len(pendingChanges) > 0
  /\ \A h \in H : handlers[h].child = NoChild

\* ------------------------------------------------------------------- C2
\* C2: a git_push blocked by the review gate is answered with a response that
\* has a result member and no error member, and the result has isError = true
\* and errorCode CHANGES_NOT_REVIEWED.
C2_BlockedIsResultNotError ==
  [][\A h \in H :
       (Dispatches(h, "git_push") /\ ValidMessage(h) /\ Unreviewed)
         => /\ Answers(h)
            /\ DOMAIN Response = {"jsonrpc", "id", "result"}
            /\ Response.jsonrpc = "2.0"
            /\ Payload(Response).isError = TRUE
            /\ Payload(Response).errorCode = "CHANGES_NOT_REVIEWED"]_vars

\* a response with a result, no error, isError and the code is on stdout
C2_Witness ==
  \E i \in DOMAIN stdout :
    /\ IsResult(stdout[i])
    /\ "isError" \in DOMAIN Payload(stdout[i])
    /\ Payload(stdout[i]).isError
    /\ Payload(stdout[i]).errorCode = "CHANGES_NOT_REVIEWED"

\* ------------------------------------------------------------------- C3
\* C3: a git_push blocked by the review gate leaves the pending list, the
\* review flag and the push history as they were.
C3_BlockedChangesNothing ==
  [][\A h \in H :
       (Answers(h) /\ Cur(h).name = "git_push" /\ IsBlocked(Response))
         => /\ pendingChanges' = pendingChanges
            /\ changesReviewed' = changesReviewed
            /\ pushHistory' = pushHistory]_vars

\* a blocked git_push has been answered after an earlier push was recorded:
\* the history and the pending list it had to leave alone are not empty
C3_Witness ==
  /\ Len(stdout) > 0
  /\ IsBlocked(stdout[Len(stdout)])
  /\ Len(pushHistory) > 0
  /\ Len(pendingChanges) > 0

\* ------------------------------------------------------------------- C4
\* C4 as stated: after every git_push call has completed (pushed, failed,
\* blocked, or rejected for its message) the review flag is false.
C4_FlagFalseAfterEveryCall ==
  [][\A h \in H : CompletesGitPush(h) => changesReviewed' = FALSE]_vars

\* C4, amended: after a git_push call with a non-empty string message has
\* completed (pushed, failed or blocked) the review flag is false; a call
\* rejected for its message leaves the flag as it was.
C4_FlagFalseAfterCallWithMessage ==
  [][\A h \in H :
       CompletesGitPush(h)
         => IF ValidMessage(h) THEN changesReviewed' = FALSE
                               ELSE changesReviewed' = changesReviewed]_vars

\* a reviewed push has failed and the flag is false
C4_Witness ==
  /\ \E i \in DOMAIN stdout : IsPushFailure(stdout[i])
  /\ \E k \in DOMAIN events : events[k].e = "review"
  /\ changesReviewed = FALSE
  /\ \A h \in H : handlers[h].pc = "idle"

\* ------------------------------------------------------------- SpecSave
\* save_changes with every shape of arguments, and the review that sets the
\* flag.  A string of blanks is truthy and trims to the empty string.
SaveFiles ==
  {Undef, Str(<<"a">>), Arr(<<>>), Arr(<<Str(<<>>)>>), Arr(<<Str(<<" ">>)>>),
   Arr(<<Str(<<" ", "a">>)>>)}

SaveContents == {Undef, Str(<<>>), Str(<<" ">>), Str(<<"c", " ">>)}

\* the multi-instance server also takes calls that name no repo
SaveRepoArgs == IF mode = "single" THEN {""} ELSE {"", "web"}

AnySaveLines ==
  {Call("save_changes", Args(r, Undef, f, c, Undef, Undef)) :
     r \in SaveRepoArgs, f \in SaveFiles, c \in SaveContents}

SaveChunks == {<<l>> : l \in AnySaveLines \cup ReviewLines}

NextSave ==
  \/ Receive(SaveChunks, MaxSaveRequests)
  \/ \E h \in H : SaveChanges(h)
  \/ \E h \in H : GetPendingChanges(h)

SpecSave == Init /\ [][NextSave]_vars

\* ------------------------------------------------------------------ C11
\* a pending change with a non-empty list of non-empty file names and a
\* non-empty content
WellFormedChange(c) ==
  /\ Len(c.files) > 0
  /\ \A i \in DOMAIN c.files : c.files[i] # <<>>
  /\ c.content # <<>>

\* C11: every pending change held in memory or in a pending-changes file has
\* a non-empty files list of non-empty strings and a non-empty content.
C11_ChangesWellFormed ==
  /\ \A i \in DOMAIN pendingChanges : WellFormedChange(pendingChanges[i])
  /\ \A r \in RepoNames : \A i \in DOMAIN changesFile[r].data :
       WellFormedChange(changesFile[r].data[i])

\* ------------------------------------------------------------------ C12
\* the arguments C12 names: files missing, not an array, empty or holding an
\* empty string, or content missing or empty
SaveArgsInvalid(args) ==
  \/ args.files.t # "array"
  \/ args.files.v = <<>>
  \/ \E i \in DOMAIN args.files.v :
       args.files.v[i].t = "string" /\ args.files.v[i].v = <<>>
  \/ args.content.t = "undefined"
  \/ (args.content.t = "string" /\ args.content.v = <<>>)

\* C12: a save_changes call with such arguments fails with an error and
\* changes neither the pending list nor the review flag, in both variants.
C12_InvalidSaveFailsUnchanged ==
  [][\A h \in H :
       (Dispatches(h, "save_changes") /\ SaveArgsInvalid(Cur(h).args))
         => /\ Answers(h)
            /\ IsError(Response)
            /\ pendingChanges' = pendingChanges
            /\ changesFile' = changesFile
            /\ changesReviewed' = changesReviewed]_vars

\* ------------------------------------------------------------- SpecPage
\* get_pending_changes with every shape of limit and offset, between saves
PageLimits == {Undef, Num(0), Num(1), Num(1001), Str(<<"5">>)}

PageOffsets == {Undef, Num(-1), Num(1), Str(<<"0">>)}

PageLines ==
  {Call("get_pending_changes", Args(r, Undef, Undef, Undef, l, o)) :
     r \in RepoArgs, l \in PageLimits, o \in PageOffsets}

PageChunks == {<<l>> : l \in PageLines \cup SaveLines}

NextPage ==
  \/ Receive(PageChunks, MaxPageRequests)
  \/ \E h \in H : SaveChanges(h)
  \/ \E h \in H : GetPendingChanges(h)

SpecPage == Init /\ [][NextPage]_vars

\* ------------------------------------------------------------------ C13
\* a parameter the caller gave that is not a number
NotANumber(x) == x.t \notin {"undefined", "number"}

\* the parameters C13 names: limit outside [1, 1000], offset below 0, or
\* either not a number
PageArgsInvalid(args) ==
  \/ NotANumber(args.limit)
  \/ NotANumber(args.offset)
  \/ (args.limit.t = "number" /\ (args.limit.v < 1 \/ args.limit.v > 1000))
  \/ (args.offset.t = "number" /\ args.offset.v < 0)

\* C13: get_pending_changes with invalid parameters fails with an error and
\* leaves the review flag and the pending list as they were; with valid
\* parameters it sets the review flag.
C13_PageParametersChecked ==
  [][\A h \in H : Dispatches(h, "get_pending_changes") =>
       /\ Answers(h)
       /\ IF PageArgsInvalid(Cur(h).args)
          THEN /\ IsError(Response)
               /\ changesReviewed' = changesReviewed
               /\ pendingChanges' = pendingChanges
               /\ changesFile' = changesFile
          ELSE /\ IsResult(Response)
               /\ changesReviewed' = TRUE]_vars

\* a call with limit 1000 (by default) is answered while the flag is down, and
\* one with a bad offset is refused while the flag is up
C13_Witness ==
  /\ changesReviewed
  /\ \E i, j \in DOMAIN stdout :
       /\ i < j
       /\ IsResult(stdout[i])
       /\ "hasMore" \in DOMAIN Payload(stdout[i])
       /\ IsError(stdout[j])
       /\ stdout[j].error.message =
            "offset parameter must be greater than or equal to 0"

\* ------------------------------------------------------------------ C14
\* the answer of a get_pending_changes call
IsPage(r) == IsResult(r) /\ "hasMore" \in DOMAIN Payload(r)

\* two calls answered one right after the other, with the same parameters,
\* answer the same changes, total and hasMore
RepeatedPagesAgree ==
  \A i \in DOMAIN stdout : i + 1 \in DOMAIN stdout =>
    LET p == stdout[i]
        q == stdout[i + 1]
    IN (IsPage(p) /\ IsPage(q)
        /\ Payload(p).limit = Payload(q).limit
        /\ Payload(p).offset = Payload(q).offset)
         => /\ Payload(p).changes = Payload(q).changes
            /\ Payload(p).total = Payload(q).total
            /\ Payload(p).hasMore = Payload(q).hasMore

\* C14: get_pending_changes never modifies the pending list, repeated calls
\* with the same parameters and no save or push in between return the same
\* changes, total and hasMore, and the review flag stays true.
C14_ReviewReadsOnly ==
  [][/\ \A h \in H : Dispatches(h, "get_pending_changes") =>
          /\ Answers(h)
          /\ pendingChanges' = pendingChanges
          /\ changesFile' = changesFile
          /\ (changesReviewed => changesReviewed')
          /\ (IsResult(Response) => changesReviewed')
     /\ RepeatedPagesAgree']_vars

\* two calls with limit 1, one right after the other, over a list of two
C14_Witness ==
  /\ changesReviewed
  /\ \E i \in DOMAIN stdout :
       /\ i + 1 \in DOMAIN stdout
       /\ IsPage(stdout[i]) /\ IsPage(stdout[i + 1])
       /\ Payload(stdout[i]).limit = 1 /\ Payload(stdout[i + 1]).limit = 1
       /\ Payload(stdout[i]).hasMore
       /\ Len(Payload(stdout[i + 1]).changes) = 1

\* ------------------------------------------------------------- SpecLogs
\* get_operation_logs after saves and reviews, good and refused
LogLines ==
  {Call("get_operation_logs", Args(r, Undef, Undef, Undef, l, Undef)) :
     r \in RepoArgs, l \in {Undef, Num(1000), Num(0)}}

LogChunks ==
  {<<l>> : l \in LogLines \cup SaveLines \cup ReviewLines
                 \cup {k \in AnySaveLines : k.args.files = Undef}}

NextLogs ==
  \/ Receive(LogChunks, MaxLogRequests)
  \/ \E h \in H : SaveChanges(h)
  \/ \E h \in H : GetPendingChanges(h)
  \/ \E h \in H : GetOperationLogs(h)

SpecLogs == Init /\ [][NextLogs]_vars

\* ------------------------------------------------------------------ C15
\* C15: get_operation_logs(limit=1000) called once N operations have been
\* handled since startup returns total = N and N entries (N below the cap of
\* the log): one entry per handled operation.  In SpecLogs every request is
\* answered before the next is read, so N is the number of responses written.
C15_OneLogEntryPerOperation ==
  [][\A h \in H :
       (Dispatches(h, "get_operation_logs") /\ Cur(h).args.limit = Num(1000))
         => /\ Answers(h)
            /\ IsResult(Response)
            /\ Payload(Response).total = Len(stdout)
            /\ Len(Payload(Response).logs) = Len(stdout)]_vars

\* -------------------------------------------------------------- SpecRpc
\* requests the dispatcher refuses, lines that are not JSON, and chunks of
\* several lines
UnknownToolLines ==
  {Call(n, Args(r, Undef, FilesOk, ContentOk, Undef, Undef)) :
     n \in {"no_such_tool", "Unknown method"}, r \in RepoArgs}

BadVersionLines ==
  {Request("1.0", "ping")}
    \cup {[l EXCEPT !.jsonrpc = "1.0"] : l \in SaveLines}

UnknownMethodLines ==
  {Request("2.0", m) : m \in {"no/such", "Server not initialized"}}

RpcLines ==
  UnknownToolLines \cup BadVersionLines \cup UnknownMethodLines
    \cup SaveLines \cup ReviewLines \cup {Request("2.0", "ping"), Garbage}

RpcChunks ==
  {<<l>> : l \in RpcLines}
    \cup {<<Garbage, l>> : l \in SaveLines}
    \cup {<<l, Garbage>> : l \in ReviewLines}
    \cup {<<l, Garbage, Request("2.0", "ping")>> : l \in SaveLines}

NextRpc ==
  \/ Receive(RpcChunks, MaxRpcRequests)
  \/ \E h \in H : RejectRequest(h)
  \/ \E h \in H : MalformedLine(h)
  \/ \E h \in H : Ping(h)
  \/ \E h \in H : SaveChanges(h)
  \/ \E h \in H : GetPendingChanges(h)

SpecRpc == Init /\ [][NextRpc]_vars

\* no tool operation has run in the step: memory, files and journal of gate
\* effects are as they were and no subprocess was started
NoOperationRuns ==
  /\ UNCHANGED <<pendingChanges, changesReviewed, pushHistory, changesFile,
                 pushHistoryFile, events>>
  /\ \A g \in H : handlers'[g].child \in {NoChild, handlers[g].child}

\* ------------------------------------------------------------------ C16
\* C16: a tools/call whose name, the prefix stripped, is no tool operation is
\* answered with an error of code -32601 and no operation is invoked.
C16_UnknownToolIsMethodNotFound ==
  [][\A h \in H :
       (/\ Decoded(h)
        /\ Cur(h).jsonrpc = "2.0"
        /\ Cur(h).method = "tools/call"
        /\ Cur(h).name # ""
        /\ ActualMethodName(Cur(h).name) \notin ToolNames)
         => /\ Answers(h)
            /\ IsError(Response)
            /\ Response.error.code = -32601
            /\ NoOperationRuns]_vars

\* ------------------------------------------------------------------ C17
\* C17: a request whose jsonrpc is not "2.0" is answered with error -32600,
\* one with an unrecognised method with error -32601, and in both cases no
\* tool runs and pending list, review flag and push history are unchanged.
C17_VersionAndMethodErrors ==
  [][\A h \in H :
       /\ (Decoded(h) /\ Cur(h).jsonrpc # "2.0")
            => /\ Answers(h)
               /\ IsError(Response)
               /\ Response.error.code = -32600
               /\ NoOperationRuns
       /\ (Decoded(h) /\ Cur(h).jsonrpc = "2.0" /\ Cur(h).method \notin Methods)
            => /\ Answers(h)
               /\ IsError(Response)
               /\ Response.error.code = -32601
               /\ NoOperationRuns]_vars

\* ------------------------------------------------------------------ C19
\* C19: a line that is not JSON gets one error response of its own and is
\* otherwise as if absent: the step changes nothing else, the lines after it
\* are still there to be handled, and once the handlers are done every line
\* received has been answered.
C19_MalformedLineIsolated ==
  [][/\ \A h \in H : (handlers[h].pc = "ready" /\ ~Cur(h).valid) =>
          /\ Len(stdout') = Len(stdout) + 1
          /\ IsError(Response)
          /\ Response.id = NullId
          /\ \A i \in DOMAIN stdout : stdout'[i] = stdout[i]
          /\ handlers'[h].lines = Tail(handlers[h].lines)
          /\ UNCHANGED <<pendingChanges, changesReviewed, pushHistory,
                         operationLogs, changesFile, pushHistoryFile, events>>
     /\ ((\A h \in H : handlers'[h].pc = "idle") => Len(stdout') = reqCount')
    ]_vars

\* a chunk of three lines, the second not JSON, answered line by line: the
\* save, the error with id null, the pong
C19_Witness ==
  /\ \A h \in H : handlers[h].pc = "idle"
  /\ \E i \in DOMAIN stdout :
       /\ i + 2 \in DOMAIN stdout
       /\ IsResult(stdout[i]) /\ stdout[i].id = i
       /\ "change_id" \in DOMAIN Payload(stdout[i])
       /\ Len(pendingChanges) > 0 /\ pendingChanges[1].id = i
       /\ IsError(stdout[i + 1]) /\ stdout[i + 1].id = NullId
       /\ IsResult(stdout[i + 2]) /\ stdout[i + 2].id = i + 2
       /\ stdout[i + 2].result = [pong |-> TRUE]

\* ------------------------------------------------------------- SpecExit
\* shutdown and the notifications, around a git_push and its subprocesses
ExitLines ==
  {l \in PushLines : l.args.message = MsgOk}
    \cup {Request("2.0", m) :
            m \in {"ping", "shutdown", "notifications/initialized",
                   "notifications/exit"}}

ExitChunks ==
  {<<l>> : l \in ExitLines}
    \cup {<<Request("2.0", m), Request("2.0", "ping")>> :
            m \in {"shutdown", "notifications/exit"}}

NextExit ==
  \/ Receive(ExitChunks, MaxExitRequests)
  \/ \E h \in H : GitPushBegin(h)
  \/ \E h \in H : StatusSettles(h)
  \/ \E h \in H : AddSettles(h)
  \/ \E h \in H : AddCatchSettles(h)
  \/ \E h \in H : CommitSettles(h)
  \/ \E h \in H : PushSettles(h)
  \/ \E h \in H : Ping(h)
  \/ \E h \in H : NotificationsInitialized(h)
  \/ \E h \in H : Shutdown(h)
  \/ \E h \in H : NotificationsExit(h)
  \/ ExitTimerFires

SpecExit == Init /\ [][NextExit]_vars

\* ------------------------------------------------------------------ C18
\* the step ends the handling of the request at the head of h's chunk
Finishes(h) ==
  /\ handlers[h].lines # <<>>
  /\ handlers'[h].pc \in {"idle", "ready"}
  /\ handlers'[h].lines = Tail(handlers[h].lines)

IsNotification(req) ==
  req.method \in {"notifications/initialized", "notifications/exit"}

\* the process terminates in the step
ProcessExits ==
  \E h \in H : handlers[h].pc # "exited" /\ handlers'[h].pc = "exited"

\* a request of h has been decoded and is waiting for a subprocess
InFlight(h) == handlers[h].pc \notin {"idle", "ready", "exited"}

\* handling a request writes one response with its id, or none for a
\* notification
C18_OneResponseWhenHandled ==
  \A h \in H : (Finishes(h) /\ Cur(h).valid) =>
    IF IsNotification(Cur(h))
    THEN stdout' = stdout
    ELSE Answers(h) /\ \A i \in DOMAIN stdout : stdout'[i] = stdout[i]

\* no request id is answered twice
C18_NoIdTwice ==
  \A i, j \in DOMAIN stdout :
    (i < j /\ stdout[i].id # NullId) => stdout[i].id # stdout[j].id

\* shutdown is answered with a null result while the process still runs
C18_ShutdownAnsweredFirst ==
  \A h \in H : (Decoded(h) /\ Cur(h).method = "shutdown") =>
    /\ Answers(h)
    /\ Response.result = Null
    /\ ~ProcessExits

\* C18: every decoded request produces exactly one response line with its
\* id, except the two notifications, which produce none (so the process never
\* terminates with a decoded request unanswered), and the response to
\* shutdown, with an empty result, is written before the process terminates.
C18_EveryRequestAnsweredOnce ==
  [][/\ C18_OneResponseWhenHandled
     /\ C18_NoIdTwice'
     /\ C18_ShutdownAnsweredFirst
     /\ (ProcessExits => \A h \in H : ~InFlight(h))]_vars

\* ----------------------------------------------------------- SpecStatus
\* git_status for every repository of the table, for none and for a stranger
StatusRepoArgs ==
  IF mode = "single" THEN {""} ELSE {"", "web", "api", "nope"}

StatusChunks ==
  {<<Call("git_status", Args(r, Undef, Undef, Undef, Undef, Undef))>> :
     r \in StatusRepoArgs}

NextStatus ==
  \/ Receive(StatusChunks, MaxStatusRequests)
  \/ \E h \in H : RejectRequest(h)
  \/ \E h \in H : GitStatusBegin(h)
  \/ \E h \in H : GitStatusSettles(h)

SpecStatus == Init /\ [][NextStatus]_vars

\* ------------------------------------------------------------------ C20
\* the working directories the startup table gives to a repo name
TablePaths(repo) ==
  {MULTI_INSTANCE[i].PROJECT_PATH :
     i \in {j \in DOMAIN MULTI_INSTANCE : MULTI_INSTANCE[j].REPO_NAME = repo}}

\* C20: on the multi-instance server a tools/call that names a repo missing
\* from the startup table fails with 'Repository not found', invokes no
\* operation and starts no subprocess; a call that names a configured repo
\* runs its git subprocess in that repo's PROJECT_PATH.
C20_RepoRouting ==
  [][mode = "multi" =>
       \A h \in H : (Decoded(h) /\ Cur(h).name = "git_status") =>
         IF Cur(h).args.repo # "" /\ TablePaths(Cur(h).args.repo) = {}
         THEN /\ Answers(h)
              /\ IsError(Response)
              /\ Response.error.message = "Repository not found"
              /\ NoOperationRuns
         ELSE /\ handlers'[h].child.cmd = "status"
              /\ Cur(h).args.repo # ""
                   => handlers'[h].child.cwd \in TablePaths(Cur(h).args.repo)]_vars

\* 'nope' has been refused and a status of 'api' runs in /api
C20_Witness ==
  /\ mode = "multi"
  /\ \E i \in DOMAIN stdout :
       IsError(stdout[i]) /\ stdout[i].error.message = "Repository not found"
  /\ \E h \in H :
       /\ handlers[h].pc = "git_status"
       /\ Cur(h).args.repo = "api"
       /\ handlers[h].child.cmd = "status"
       /\ handlers[h].child.cwd = "/api"

\* ------------------------------------------------------------------ C21
\* the tool operations that work on one repository
ContextScoped ==
  {"git_push", "git_pull", "git_status", "git_diff", "git_add", "git_log",
   "save_changes"}

\* C21: on the multi-instance server a context-scoped tool call that gives no
\* repo never starts a git subprocess and never changes the pending changes
\* or the push history.
C21_RepoRequired ==
  [][mode = "multi" =>
       \A h \in H :
         (/\ Decoded(h)
          /\ Cur(h).method = "tools/call"
          /\ Cur(h).name \in ContextScoped
          /\ Cur(h).args.repo = "")
           => /\ handlers'[h].child = NoChild
              /\ UNCHANGED <<pendingChanges, pushHistory, changesFile,
                             pushHistoryFile>>]_vars

\* ------------------------------------------------------------ SpecRepos
\* changes saved under every repository of the table, a review, and pushes
\* of every repository
ReposChunks ==
  {<<Call(n, Args(r, m, FilesOk, ContentOk, Undef, Undef))>> :
     r \in (IF mode = "single" THEN {""} ELSE {"web", "api"}),
     n \in {"save_changes", "git_push"}, m \in {MsgOk}}
    \cup {<<l>> : l \in ReviewLines}

NextRepos ==
  \/ Receive(ReposChunks, MaxReposRequests)
  \/ \E h \in H : SaveChanges(h)
  \/ \E h \in H : GetPendingChanges(h)
  \/ \E h \in H : GitPushBegin(h)
  \/ \E h \in H : StatusSettles(h)
  \/ \E h \in H : AddSettles(h)
  \/ \E h \in H : AddCatchSettles(h)
  \/ \E h \in H : CommitSettles(h)
  \/ \E h \in H : PushSettles(h)

SpecRepos == Init /\ [][NextRepos]_vars

\* ------------------------------------------------------------------ C22
\* the changes of list that were saved under another context than repo
OfOtherContexts(list, repo) ==
  SelectSeq(list, LAMBDA c : c.repo_name # repo)

\* C22: on the multi-instance server a successful git_push for a context
\* removes only the pending changes saved under that context: those saved
\* under another context are still in memory, and the files of the other
\* contexts are as they were.
C22_PushClearsOwnContextOnly ==
  [][mode = "multi" =>
       \A h \in H :
         (CompletesGitPush(h) /\ IsPushed(Response)) =>
           /\ pendingChanges' = OfOtherContexts(pendingChanges, Cur(h).args.repo)
           /\ \A r \in RepoNames \ {Cur(h).args.repo} :
                changesFile'[r] = changesFile[r]]_vars

\* ------------------------------------------------------------------ C23
\* remote, local branch, remote branch and push flags configured for the
\* context a call resolves to: the environment of the single-instance server,
\* the table entry of the multi-instance server (a value left unset being
\* 'origin', '--progress')
Configured(repo) ==
  IF mode = "single" THEN ENV
  ELSE LET e == MULTI_INSTANCE[CHOOSE i \in DOMAIN MULTI_INSTANCE :
                                 MULTI_INSTANCE[i].REPO_NAME = repo]
       IN [REMOTE_NAME |-> Or(e.REMOTE_NAME, "origin"),
           LOCAL_BRANCH |-> e.LOCAL_BRANCH, REMOTE_BRANCH |-> e.REMOTE_BRANCH,
           GIT_PUSH_FLAGS |->
             IF e.GIT_PUSH_FLAGS = <<>>
             THEN <<"-", "-", "p", "r", "o", "g", "r", "e", "s", "s">>
             ELSE e.GIT_PUSH_FLAGS]

\* C23: the push subprocess of git_push has the arguments push, R, L:B and
\* then the whitespace-separated tokens of F, for the R, L, B and F configured
\* for the resolved context.
C23_PushArgv ==
  [][\A h \in H :
       (/\ handlers'[h].child.cmd = "push"
        /\ handlers[h].child.cmd # "push"
        /\ (mode = "multi" => TablePaths(Cur(h).args.repo) # {}))
         => LET c == Configured(Cur(h).args.repo)
            IN handlers'[h].child.args =
                 <<"push", c.REMOTE_NAME,
                   c.LOCAL_BRANCH \o ":" \o c.REMOTE_BRANCH>>
                   \o SplitWs(Trim(c.GIT_PUSH_FLAGS))]_vars

\* ---------------------------------------------------------- SpecRestart
\* saves, reviews and pushes, and restarts of the server at any moment
NextRestart ==
  \/ Receive({<<l>> : l \in SaveLines \cup ReviewLines
                              \cup {k \in PushLines : k.args.message = MsgOk}},
             MaxRestartRequests)
  \/ \E h \in H : SaveChanges(h)
  \/ \E h \in H : GetPendingChanges(h)
  \/ \E h \in H : GitPushBegin(h)
  \/ \E h \in H : StatusSettles(h)
  \/ \E h \in H : AddSettles(h)
  \/ \E h \in H : AddCatchSettles(h)
  \/ \E h \in H : CommitSettles(h)
  \/ \E h \in H : PushSettles(h)
  \/ Restart

SpecRestart == Init /\ [][NextRestart]_vars

\* ------------------------------------------------------------------ C24
\* C24: on the single-instance server a restart reloads a pending list and a
\* push history equal, entry by entry and in order, to the lists in memory
\* just before it.
C24_RestartReloadsLists ==
  [][(mode = "single" /\ Restart)
       => (pendingChanges' = pendingChanges /\ pushHistory' = pushHistory)]_vars

\* the single-instance server has been restarted after a push and a save:
\* the log starts afresh, both lists are there
C24_Witness ==
  /\ mode = "single"
  /\ operationLogs = StartLogs
  /\ Len(stdout) >= 2
  /\ Len(pushHistory) > 0 /\ pushHistory = pushHistoryFile[""].data
  /\ Len(pendingChanges) > 0 /\ pendingChanges[1].id > 0
  /\ pendingChanges = changesFile[""].data

\* ------------------------------------------------------------------ C25
\* the entries of list recorded under a named context
OfNamedContexts(list) == SelectSeq(list, LAMBDA e : e.repo_name # "")

\* C25: on the multi-instance server with a log directory, the pending
\* changes and push-history entries recorded under a named context are in
\* memory again, in the same order, after a restart.
C25_RestartReloadsNamedContexts ==
  [][(mode = "multi" /\ logDir /\ Restart)
       => /\ OfNamedContexts(pendingChanges') = OfNamedContexts(pendingChanges)
          /\ OfNamedContexts(pushHistory') = OfNamedContexts(pushHistory)]_vars

\* ------------------------------------------------------------- SpecHist
\* The history n successful pushes of earlier runs have left in the file,
\* the newest (id 0) first
Pushed(n) ==
  [i \in 1..n |->
     PushEntry(1 - i, MsgOk.v,
       ToolContext(Args("", Undef, Undef, Undef, Undef, Undef)), "", Num(0))]

HistoryRepoArgs == IF mode = "single" THEN {""} ELSE {"web"}

HistChunks ==
  {<<Call(n, Args(r, MsgOk, Undef, Undef, Undef, Undef))>> :
     n \in {"git_push", "get_push_history"}, r \in HistoryRepoArgs}

\* the server starts with nothing pending, on an empty history or, on the
\* single-instance server, on the history file of HistLoaded earlier pushes
InitHist ==
  /\ mode \in {"single", "multi"}
  /\ logDir = TRUE
  /\ multiInstance = MULTI_INSTANCE
  /\ gitCommand = NoCommand
  /\ stdin = <<>>
  /\ changesFile = [r \in RepoNames |-> NoFile]
  /\ pushHistoryFile \in
       {[r \in RepoNames |-> IF r = "" THEN f ELSE NoFile] :
          f \in (IF mode = "single" THEN {NoFile, File(Pushed(HistLoaded))}
                                    ELSE {NoFile})}
  /\ pendingChanges = LoadFile(changesFile)
  /\ pushHistory = LoadFile(pushHistoryFile)
  /\ changesReviewed = FALSE
  /\ operationLogs = StartLogs
  /\ handlers = [h \in H |-> Idle]
  /\ reqCount = 0
  /\ stdout = <<>>
  /\ events = <<>>
  /\ exitTimer = FALSE

NextHist ==
  \/ Receive(HistChunks, MaxHistRequests)
  \/ \E h \in H : GetPushHistory(h)
  \/ \E h \in H : GitPushBegin(h)
  \/ \E h \in H : StatusSettles(h)
  \/ \E h \in H : AddSettles(h)
  \/ \E h \in H : AddCatchSettles(h)
  \/ \E h \in H : CommitSettles(h)
  \/ \E h \in H : PushSettles(h)

SpecHist == InitHist /\ [][NextHist]_vars

\* ------------------------------------------------------------------ C26
\* C26: the push history never holds more than 100 entries; every change of
\* it puts one new entry in front of the others, which keep their order, the
\* last being dropped when there were 100 already; get_push_history returns
\* its first min(5, length) entries in that order with total = its length and
\* changes neither the history, the pending list, the review flag nor the
\* files.
C26_HistoryNewestFirstCapped ==
  /\ [](Len(pushHistory) <= 100)
  /\ [][/\ pushHistory' # pushHistory
          => /\ Len(pushHistory') = Min(Len(pushHistory) + 1, 100)
             /\ \A i \in 2..Len(pushHistory') :
                  pushHistory'[i] = pushHistory[i - 1]
        /\ \A h \in H :
             (Answers(h) /\ Cur(h).name = "get_push_history" /\ IsResult(Response))
               => /\ Payload(Response).records =
                       SubSeq(pushHistory, 1, Min(5, Len(pushHistory)))
                  /\ Payload(Response).total = Len(pushHistory)
                  /\ UNCHANGED <<pushHistory, pendingChanges, changesReviewed,
                                 changesFile, pushHistoryFile>>]_vars

\* a push onto a full history has dropped the oldest entry, and
\* get_push_history has then answered with five entries of 100
C26_Witness ==
  /\ Len(pushHistory) = 100
  /\ pushHistory[100].id = 2 - HistLoaded
  /\ pushHistory[1].id > 0
  /\ Len(stdout) > 0
  /\ IsResult(stdout[Len(stdout)])
  /\ "records" \in DOMAIN Payload(stdout[Len(stdout)])
  /\ Len(Payload(stdout[Len(stdout)]).records) = 5
  /\ Payload(stdout[Len(stdout)]).total = 100

\* ----------------------------------------------------------- SpecLaunch
\* The ways of launching shipped: bin/cli.js (either server), the launcher
\* start-server.js (the single-instance server), or the server file itself.
Launchers ==
  IF mode = "single" THEN {"cli", "start-server", "server"}
  ELSE {"cli", "server"}

\* a line of text on stdout
Text(t) == [text |-> t]

\* What the launcher has written to the stdout the server inherits, before
\* the server is spawned: start-server.js announces the configuration with
\* console.log, bin/cli.js writes nothing.
LauncherOutput(launcher) ==
  IF launcher = "start-server"
  THEN << Text("Starting MCP Git Server..."),
          Text("Project Path: " \o PROJECT_PATH),
          Text("Remote Name: " \o ENV.REMOTE_NAME),
          Text("Local Branch: " \o ENV.LOCAL_BRANCH),
          Text("Remote Branch: " \o ENV.REMOTE_BRANCH),
          Text("Git Push Flags: " \o Join(ENV.GIT_PUSH_FLAGS)),
          Text("Tool Prefix: (none)"),
          Text("Changes File: pending-changes.json") >>
  ELSE <<>>

InitLaunch ==
  /\ mode \in {"single", "multi"}
  /\ logDir \in (IF mode = "single" THEN {TRUE} ELSE BOOLEAN)
  /\ multiInstance = MULTI_INSTANCE
  /\ gitCommand = NoCommand
  /\ stdin = <<>>
  /\ changesFile = [r \in RepoNames |-> NoFile]
  /\ pushHistoryFile = [r \in RepoNames |-> NoFile]
  /\ pendingChanges = LoadFile(changesFile)
  /\ pushHistory = LoadFile(pushHistoryFile)
  /\ changesReviewed = FALSE
  /\ operationLogs = StartLogs
  /\ handlers = [h \in H |-> Idle]
  /\ reqCount = 0
  /\ stdout \in {LauncherOutput(l) : l \in Launchers}
  /\ events = <<>>
  /\ exitTimer = FALSE

SpecLaunch == InitLaunch /\ [][NextExit]_vars

\* ------------------------------------------------------------------ C27
\* a JSON-RPC response object: version 2.0, an id, and a result or an error
IsRpcResponse(line) ==
  /\ DOMAIN line \in {{"jsonrpc", "id", "result"}, {"jsonrpc", "id", "error"}}
  /\ line.jsonrpc = "2.0"

\* C27: every line on the standard output of the running service is a
\* JSON-RPC response object, whichever shipped launcher started the server.
C27_StdoutIsRpcOnly == \A i \in DOMAIN stdout : IsRpcResponse(stdout[i])

\* ------------------------------------------------------------ SpecTable
\* The MULTI_INSTANCE[n].PROP variables of the launch environment, by index:
\* a property that is not set is ''.
EnvNames == {"", "web", "api"}
EnvPaths == {"", "/web", "/api"}

EnvInstance(name, path) ==
  [REPO_NAME |-> name, PROJECT_PATH |-> path, LOCAL_BRANCH |-> "",
   REMOTE_BRANCH |-> "", REMOTE_NAME |-> "", GIT_PUSH_FLAGS |-> <<>>]

Envs ==
  {<<EnvInstance(n0, p0), EnvInstance(n1, p1)>> :
     n0 \in EnvNames, p0 \in EnvPaths, n1 \in EnvNames, p1 \in EnvPaths}

\* bin/cli.js parseMultiInstance: the objects by ascending index, those with
\* a REPO_NAME and a PROJECT_PATH kept; the server parses the JSON text of it
parseMultiInstance(env) ==
  SelectSeq(env, LAMBDA instance :
    instance.REPO_NAME # "" /\ instance.PROJECT_PATH # "")

\* bin/cli.js starts the multi-instance server when the table is not empty
InitTable ==
  /\ \E env \in Envs : multiInstance = parseMultiInstance(env)
  /\ mode = (IF Len(multiInstance) > 0 THEN "multi" ELSE "single")
  /\ logDir = TRUE
  /\ gitCommand = NoCommand
  /\ stdin = <<>>
  /\ changesFile = [r \in RepoNames |-> NoFile]
  /\ pushHistoryFile = [r \in RepoNames |-> NoFile]
  /\ pendingChanges = LoadFile(changesFile)
  /\ pushHistory = LoadFile(pushHistoryFile)
  /\ changesReviewed = FALSE
  /\ operationLogs = StartLogs
  /\ handlers = [h \in H |-> Idle]
  /\ reqCount = 0
  /\ stdout = <<>>
  /\ events = <<>>
  /\ exitTimer = FALSE

SpecTable == InitTable /\ [][NextStatus]_vars

\* ------------------------------------------------------------------ C28
\* the table is never modified
TableKept == [][multiInstance' = multiInstance]_vars

\* C28: the names of the context table built at startup are pairwise
\* distinct, the lookup of an entry's name finds that entry, and the table is
\* never modified.
C28_TableKeyedByUniqueName ==
  /\ [](\A i, j \in DOMAIN multiInstance :
         i # j => multiInstance[i].REPO_NAME # multiInstance[j].REPO_NAME)
  /\ [](\A i \in DOMAIN multiInstance :
         ToolContext(Args(multiInstance[i].REPO_NAME, Undef, Undef, Undef,
                          Undef, Undef)).PROJECT_PATH
           = multiInstance[i].PROJECT_PATH)
  /\ TableKept

\* ------------------------------------------------------------------ C29
\* a porcelain line whose index column shows a change: added, modified,
\* deleted, renamed, copied, alone or with a working-tree change as well
IndexStaged(line) == line[1] \notin {" ", "?", "!"}

AnyStaged(out) == \E i \in 1..Len(out) : IndexStaged(out[i])

\* C29: in a git_push past the gate no add is started after a status that
\* shows a staged entry, and add is started at most once.
C29_AddOnlyWhenNothingStaged ==
  [][\A h \in H :
       /\ (handlers[h].pc = "status" /\ handlers'[h].pc = "add")
            => \A o \in StatusOutcomes :
                 (Resolved(o) /\ AfterStatus(o) = "add") => ~AnyStaged(o.stdout)
       /\ handlers[h].pc \in {"add", "add_catch"}
            => handlers'[h].child.cmd # "add"]_vars

\* ------------------------------------------------------------- SpecExec
\* One executeGitCommand call, event by event.  child is the subprocess
\* ("running", "killed" once SIGTERM was sent, "failed" when it could not be
\* spawned), closed says that 'close' was emitted, timer that timeoutId is
\* pending, stdout and stderr are the captured chunks, promise is <<>> while
\* pending and holds the settlement afterwards; first notes the first of
\* close, error and timeout that happened, with what was captured then.
ExitCodes == {0, 1}
SpawnErrorCode == 0 - 2
SignalCode == 0 - 1     \* stands for the exit code null of a signalled child

\* resolve / reject of a promise: only the first call settles it
Settle(promise, settlement) ==
  IF promise = <<>> THEN <<settlement>> ELSE promise

\* the first event is noted once
NoteFirst(first, how, code, c) ==
  IF first = <<>>
  THEN <<[how |-> how, code |-> code, stdout |-> c.stdout, stderr |-> c.stderr]>>
  ELSE first

\* a clearTimeout that leaves the timer pending
ClearTimeoutNoOp(timer) == timer

\* clearTimeout(timeoutId)
ClearTimeout(timer) == FALSE

\* the value of resolve({...}) and reject({...}) in the 'close' listener
CloseSettlement(code, c) ==
  IF code = 0
  THEN [settled |-> "resolved",
        value |-> [success |-> TRUE, stdout |-> c.stdout, stderr |-> c.stderr,
                   exitCode |-> code]]
  ELSE [settled |-> "rejected",
        value |-> [success |-> FALSE, stdout |-> c.stdout, stderr |-> c.stderr,
                   exitCode |-> code, error |-> "Command exited with code"]]

\* reject({...}) in the 'error' listener
ErrorSettlement(c) ==
  [settled |-> "rejected",
   value |-> [success |-> FALSE, error |-> "spawn git ENOENT",
              stdout |-> c.stdout, stderr |-> c.stderr]]

\* reject(new Error(...)) in the timer callback
TimeoutSettlement ==
  [settled |-> "rejected", value |-> [message |-> "Command timed out"]]

\* executeGitCommand up to the return of the promise: spawn, setTimeout,
\* listeners
ExecuteGitCommand ==
  /\ gitCommand = NoCommand
  /\ \E cmd \in {"status", "add", "commit", "push"} :
       gitCommand' = [state |-> "called", cmd |-> cmd, child |-> "running",
                      closed |-> FALSE, timer |-> TRUE, stdout |-> <<>>,
                      stderr |-> <<>>, promise |-> <<>>, first |-> <<>>]
  /\ UNCHANGED <<stdin, mode, logDir, multiInstance, exitTimer, pendingChanges,
                 changesReviewed, pushHistory, operationLogs, changesFile,
                 pushHistoryFile, handlers, reqCount, stdout, events>>

Following == gitCommand.state = "called"

Follow(c) ==
  /\ gitCommand' = c
  /\ UNCHANGED <<stdin, mode, logDir, multiInstance, exitTimer, pendingChanges,
                 changesReviewed, pushHistory, operationLogs, changesFile,
                 pushHistoryFile, handlers, reqCount, stdout, events>>

\* child.stdout 'data'
ChildStdoutData ==
  /\ Following
  /\ gitCommand.child \in {"running", "killed"} /\ ~gitCommand.closed
  /\ Len(gitCommand.stdout) < MaxData
  /\ Follow([gitCommand EXCEPT !.stdout = Append(@, "o")])

\* child.stderr 'data'
ChildStderrData ==
  /\ Following
  /\ gitCommand.child \in {"running", "killed"} /\ ~gitCommand.closed
  /\ Len(gitCommand.stderr) < MaxData
  /\ Follow([gitCommand EXCEPT !.stderr = Append(@, "e")])

\* the codes 'close' can carry: the exit code of a child that ran, also when
\* it ends by itself just after the signal; null for a signalled child; the
\* negative errno of a child that could not be spawned
CloseCodes(child) ==
  CASE child = "running" -> ExitCodes
    [] child = "killed" -> ExitCodes \cup {SignalCode}
    [] OTHER -> {SpawnErrorCode}

\* child 'close'
ChildClose ==
  /\ Following
  /\ ~gitCommand.closed
  /\ \E code \in CloseCodes(gitCommand.child) :
       Follow([gitCommand EXCEPT
                 !.closed = TRUE,
                 !.timer = ClearTimeout(@),
                 !.promise = Settle(@, CloseSettlement(code, gitCommand)),
                 !.first = NoteFirst(@, "close", code, gitCommand)])

\* child 'error': the spawn failed (before any output), or the signal could
\* not be delivered
ChildError ==
  /\ Following
  /\ ~gitCommand.closed
  /\ \/ gitCommand.child = "running"
        /\ gitCommand.stdout = <<>> /\ gitCommand.stderr = <<>>
        /\ Follow([gitCommand EXCEPT
                     !.child = "failed",
                     !.timer = ClearTimeout(@),
                     !.promise = Settle(@, ErrorSettlement(gitCommand)),
                     !.first = NoteFirst(@, "error", SpawnErrorCode, gitCommand)])
     \/ gitCommand.child = "killed"
        /\ Follow([gitCommand EXCEPT
                     !.timer = ClearTimeout(@),
                     !.promise = Settle(@, ErrorSettlement(gitCommand)),
                     !.first = NoteFirst(@, "error", SpawnErrorCode, gitCommand)])

\* a timer that never fires
TimeoutNeverFires == FALSE /\ UNCHANGED vars

\* the timer callback: kill, reject
TimeoutFires ==
  /\ Following
  /\ gitCommand.timer
  /\ Follow([gitCommand EXCEPT
               !.timer = FALSE,
               !.child = IF @ = "running" THEN "killed" ELSE @,
               !.promise = Settle(@, TimeoutSettlement),
               !.first = NoteFirst(@, "timeout", 0, gitCommand)])

\* the caller has the settlement and the subprocess is gone: the call is
\* followed no further
CommandDone ==
  /\ Following
  /\ gitCommand.closed /\ gitCommand.promise # <<>>
  /\ Follow(NoCommand)

NextExec ==
  \/ ExecuteGitCommand
  \/ ChildStdoutData
  \/ ChildStderrData
  \/ ChildClose
  \/ ChildError
  \/ TimeoutFires
  \/ CommandDone

SpecExec == Init /\ [][NextExec]_vars

\* ------------------------------------------------------------------ C30
\* the settlement the first event calls for
SettlementOf(f) ==
  CASE f.how = "close" /\ f.code = 0 ->
         [settled |-> "resolved", stdout |-> f.stdout, stderr |-> f.stderr,
          exitCode |-> 0]
    [] f.how = "close" /\ f.code # 0 ->
         [settled |-> "rejected", stdout |-> f.stdout, stderr |-> f.stderr,
          exitCode |-> f.code]
    [] f.how = "error" ->
         [settled |-> "rejected", error |-> "spawn git ENOENT"]
    [] OTHER -> [settled |-> "rejected", message |-> "Command timed out"]

\* what the claim reads of a settlement
Settled(p) ==
  [k \in DOMAIN p.value \ {"success"} |-> p.value[k]] @@ [settled |-> p.settled]

Carries(p, want) ==
  \A k \in DOMAIN want : k \in DOMAIN Settled(p) /\ Settled(p)[k] = want[k]

\* C30: the promise of an executeGitCommand call is settled from the first
\* of close, spawn error and timeout on, with the outcome of that event
\* (exit 0 resolves with stdout, stderr and exit code, another code rejects
\* with them, an error rejects with its message, the timer with a timeout
\* error), the settlement never changes afterwards, a pending promise has
\* its timer pending, and after close or error the timer is cancelled.
C30_SettlesOnceWithFirstEvent ==
  /\ [](Following =>
          /\ (gitCommand.promise = <<>>) = (gitCommand.first = <<>>)
          /\ gitCommand.first # <<>>
               => Carries(gitCommand.promise[1], SettlementOf(gitCommand.first[1]))
          /\ gitCommand.promise = <<>> => gitCommand.timer
          /\ (gitCommand.closed \/ gitCommand.child = "failed")
               => ~gitCommand.timer)
  /\ [][(Following /\ gitCommand.promise # <<>> /\ gitCommand' # NoCommand)
          => gitCommand'.promise = gitCommand.promise]_vars

\* the timer has rejected the call, the killed child has closed afterwards,
\* and the call is still rejected with the timeout
C30_Witness ==
  /\ Following
  /\ gitCommand.first # <<>> /\ gitCommand.first[1].how = "timeout"
  /\ gitCommand.closed
  /\ gitCommand.promise = <<TimeoutSettlement>>
  /\ Len(gitCommand.stdout) > 0

\* ------------------------------------------------------------- SpecLive
\* git_push calls, and one executeGitCommand call followed event by event;
\* the timer fires unless it is cleared, a handler that can go on does, and a
\* subprocess is free never to exit.
PushStep(h) ==
  \/ GitPushBegin(h)
  \/ StatusSettles(h)
  \/ AddSettles(h)
  \/ AddCatchSettles(h)
  \/ CommitSettles(h)
  \/ PushSettles(h)

NextLive ==
  \/ Receive({<<l>> : l \in {k \in PushLines : k.args.message = MsgOk}},
             MaxLiveRequests)
  \/ \E h \in H : PushStep(h)
  \/ NextExec

SpecLive ==
  /\ Init
  /\ [][NextLive]_vars
  /\ WF_vars(TimeoutFires)
  /\ \A h \in H : WF_vars(PushStep(h))

\* ------------------------------------------------------------------ C31
\* request id has been answered
Answered(id) == \E k \in DOMAIN stdout : stdout[k].id = id

\* C31: a pending executeGitCommand call is settled in the end though the
\* subprocess never closes; when the timer is the first event the child is
\* sent the signal and the call is rejected with the timeout error; and every
\* git_push that has started its subprocesses is answered in the end.
C31_EveryGitCallReturns ==
  /\ (Following /\ gitCommand.promise = <<>>)
       ~> (Following /\ gitCommand.promise # <<>>)
  /\ [][(Following /\ gitCommand.promise = <<>> /\ TimeoutFires)
          => /\ gitCommand'.child = "killed"
             /\ gitCommand'.promise = <<TimeoutSettlement>>]_vars
  /\ \A id \in 1..MaxLiveRequests :
       (\E h \in H : /\ handlers[h].pc \in {"status", "add", "add_catch",
                                               "commit", "push"}
                      /\ Cur(h).id = id)
         ~> Answered(id)

\* the timer has settled a call whose subprocess is still there, and a
\* git_push has been answered with the timeout of its push
C31_Witness ==
  /\ Following
  /\ gitCommand.first # <<>> /\ gitCommand.first[1].how = "timeout"
  /\ ~gitCommand.closed /\ gitCommand.child = "killed"
  /\ \E k \in DOMAIN stdout :
       IsError(stdout[k]) /\ stdout[k].error.detail = "Command timed out"

\* ------------------------------------------------------------------ C32
\* C32: the lines of a chunk are handled one after another: a handler leaves
\* a line only by the step that journals it and writes its response, it goes
\* on with the next line of the chunk, every response written is the one of
\* the line its handler stands at, and no line waiting behind it has been
\* answered; so the responses of a chunk come in the order of its lines.
C32_BatchHandledInOrder ==
  /\ [](\A h \in H : \A i \in DOMAIN handlers[h].lines :
         /\ ~Answered(handlers[h].lines[i].id)
         /\ \A j \in DOMAIN handlers[h].lines :
              i < j => handlers[h].lines[i].id < handlers[h].lines[j].id)
  /\ [][/\ \A h \in H :
            (handlers[h].lines # <<>> /\ handlers'[h].lines # handlers[h].lines)
              => /\ handlers'[h].lines = Tail(handlers[h].lines)
                 /\ Answers(h)
                 /\ operationLogs' # operationLogs
        /\ Len(stdout') > Len(stdout)
             => \E h \in H : Answers(h) /\ handlers'[h].lines # handlers[h].lines
       ]_vars

\* the first push of a two-line chunk awaits its commit, the second line
\* waits behind it, and the handler of a later chunk is running as well
C32_Witness ==
  \E h, g \in H :
    /\ h # g
    /\ Len(handlers[h].lines) = 2
    /\ handlers[h].pc = "commit"
    /\ handlers[g].pc = "status"
    /\ Cur(g).id = 3

\* ------------------------------------------------------------------ C33
\* C33: the step in which the handling of an input line ends, with or
\* without a response, has added an entry to the operation log.
C33_EveryLineJournalled ==
  [][\A h \in H :
       (handlers[h].lines # <<>> /\ handlers'[h].lines # handlers[h].lines)
         => operationLogs' # operationLogs]_vars

\* ------------------------------------------------------------ SpecSlice
\* saves, and the two paged reads with valid limits and offsets
SliceRepoArgs == IF mode = "single" THEN {""} ELSE {"web", "api"}

SliceLines ==
  {Call("save_changes", Args(r, Undef, FilesOk, ContentOk, Undef, Undef)) :
     r \in SliceRepoArgs}
  \cup {Call("get_pending_changes", Args(r, Undef, Undef, Undef, l, o)) :
          r \in SliceRepoArgs, l \in {Undef, Num(1), Num(2)},
          o \in {Undef, Num(1)}}
  \cup {Call("get_operation_logs", Args(r, Undef, Undef, Undef, l, o)) :
          r \in RepoArgs, l \in {Undef, Num(1), Num(2)}, o \in {Undef, Num(1)}}

NextSlice ==
  \/ Receive({<<l>> : l \in SliceLines}, MaxSliceRequests)
  \/ \E h \in H : SaveChanges(h)
  \/ \E h \in H : GetPendingChanges(h)
  \/ \E h \in H : GetOperationLogs(h)

SpecSlice == Init /\ [][NextSlice]_vars

\* ------------------------------------------------------------------ C34
\* the entries at positions offset .. offset + limit - 1, counted from 0, of
\* a list, as far as the list goes
Positions(list, offset, limit) ==
  [i \in 1..(IF offset >= Len(list) THEN 0
             ELSE IF limit < Len(list) - offset THEN limit
             ELSE Len(list) - offset) |-> list[offset + i]]

\* C34: a get_operation_logs or get_pending_changes call with valid limit and
\* offset returns the entries at positions offset .. offset+limit-1 of the
\* list it reads (the operation log; the pending changes, those of the named
\* repository on the multi-instance server), total = the length of that list
\* and hasMore = (offset + limit < total).
C34_PageIsTheSlice ==
  [][\A h \in H :
       (/\ handlers[h].lines # <<>>
        /\ Cur(h).valid
        /\ Cur(h).method = "tools/call"
        /\ Cur(h).name \in {"get_operation_logs", "get_pending_changes"}
        /\ Answers(h) /\ IsResult(Response))
         => LET logs == Cur(h).name = "get_operation_logs"
                list == IF logs THEN operationLogs
                        ELSE FilteredChanges(Cur(h).args)
                limit == IF Cur(h).args.limit = Undef
                         THEN (IF logs THEN 50 ELSE 1000)
                         ELSE Cur(h).args.limit.v
                offset == IF Cur(h).args.offset = Undef THEN 0
                          ELSE Cur(h).args.offset.v
                page == Payload(Response)
            IN /\ (IF logs THEN page.logs ELSE page.changes)
                    = Positions(list, offset, limit)
               /\ page.total = Len(list)
               /\ page.hasMore = (offset + limit < Len(list))]_vars

\* a page of one change from position 1, with more behind it, has been
\* returned
C34_Witness ==
  \E i \in DOMAIN stdout :
    /\ IsPage(stdout[i])
    /\ "changes" \in DOMAIN Payload(stdout[i])
    /\ Payload(stdout[i]).offset = 1 /\ Payload(stdout[i]).limit = 1
    /\ Len(Payload(stdout[i]).changes) = 1
    /\ Payload(stdout[i]).hasMore

\* ------------------------------------------------------------------ C35
\* the change was in a page some get_pending_changes call has returned
Reviewed(c) ==
  \E k \in DOMAIN stdout :
    /\ IsPage(stdout[k])
    /\ \E i \in DOMAIN Payload(stdout[k]).changes :
         Payload(stdout[k]).changes[i] = c

\* C35: every pending change a successful git_push removes had been returned
\* by a get_pending_changes call before.
C35_OnlyReviewedChangesRemoved ==
  [][\A h \in H :
       (handlers[h].lines # <<>> /\ Answers(h) /\ IsPushed(Response))
         => \A i \in DOMAIN pendingChanges :
              (\A j \in DOMAIN pendingChanges' :
                 pendingChanges'[j] # pendingChanges[i])
                => Reviewed(pendingChanges[i])]_vars

\* ------------------------------------------------------------------ C36
\* a get_pending_changes call made after the change was saved did not
\* return it: the call was for another repository
ReviewedElsewhere(c) ==
  /\ ~Reviewed(c)
  /\ \E k \in DOMAIN events :
       /\ events[k].e = "review"
       /\ events[k].tool = "get_pending_changes"
       /\ events[k].id > c.id

\* C36: on the multi-instance server a git_push for repository B is blocked
\* while B has a pending change that no get_pending_changes call has
\* returned, also after a review for another repository.
C36_ReviewIsPerContext ==
  [][\A h \in H :
       (/\ mode = "multi"
        /\ Dispatches(h, "git_push")
        /\ MessageError(Cur(h).args) = ""
        /\ Cur(h).args.repo # ""
        /\ \E i \in DOMAIN pendingChanges :
             /\ pendingChanges[i].repo_name = Cur(h).args.repo
             /\ ReviewedElsewhere(pendingChanges[i]))
         => Answers(h) /\ IsBlocked(Response)]_vars

\* ------------------------------------------------------------------ C37
\* git_pull of the multi-instance server starts `git pull` in the context
GitPullBegin(h) ==
  /\ Dispatches(h, "git_pull")
  /\ handlers' = Await(h, "pull", "git_pull")
  /\ UNCHANGED <<stdin, mode, logDir, multiInstance, gitCommand, exitTimer,
                 pendingChanges, changesReviewed, pushHistory, operationLogs,
                 changesFile, pushHistoryFile, reqCount, stdout, events>>

\* the pull settles: a rejection is rethrown as `Git pull failed: ...`
GitPullSettles(h) ==
  /\ NoReady
  /\ handlers[h].pc = "git_pull"
  /\ \E o \in PushOutcomes :
       IF Resolved(o)
       THEN Return(h, operationLogs,
              [success |-> TRUE, project_path |-> handlers[h].child.cwd,
               output |-> o.stdout])
       ELSE Throw(h, operationLogs, "Git pull failed", ErrText(o))
  /\ UNCHANGED <<stdin, mode, logDir, multiInstance, gitCommand, exitTimer,
                 pendingChanges, changesReviewed, pushHistory, changesFile,
                 pushHistoryFile, reqCount, events>>

\* tools/call with the name executeGitCommand: the helper is invoked with the
\* client's arguments as its args.  An array is handed to spawn as the
\* argument vector of git; on an object args.map throws in the executor.
ExecuteGitCommandCalled(h) ==
  /\ Dispatches(h, "executeGitCommand")
  /\ IF HasArgv(Cur(h).args)
     THEN /\ handlers' = Await(h, "executeGitCommand", "executeGitCommand")
          /\ UNCHANGED <<operationLogs, stdout>>
     ELSE Throw(h, operationLogs, "args.map is not a function", "")
  /\ UNCHANGED <<stdin, mode, logDir, multiInstance, gitCommand, exitTimer,
                 pendingChanges, changesReviewed, pushHistory, changesFile,
                 pushHistoryFile, reqCount, events>>

\* the subprocess of such a call settles.  Resolved, its record is the tool
\* result.  Rejected, the plain object thrown has no message: finally
\* journals the call, the outer catch of handleRequest throws on
\* error.message.includes, and the data handler answers with id null.
ExecuteGitCommandSettles(h) ==
  /\ NoReady
  /\ handlers[h].pc = "executeGitCommand"
  /\ \E o \in PushOutcomes :
       IF Resolved(o)
       THEN Return(h, operationLogs,
              [success |-> TRUE, stdout |-> o.stdout, exitCode |-> o.code])
       ELSE /\ operationLogs' = LogRequest(operationLogs, Cur(h).method, "")
            /\ stdout' = Append(stdout,
                 [jsonrpc |-> "2.0", id |-> NullId,
                  error |-> [code |-> -32603, message |-> "Internal error",
                             detail |-> "Cannot read properties of undefined"]])
            /\ handlers' = Pop(h)
  /\ UNCHANGED <<stdin, mode, logDir, multiInstance, gitCommand, exitTimer,
                 pendingChanges, changesReviewed, pushHistory, changesFile,
                 pushHistoryFile, reqCount, events>>

\* tools/call with the name handleRequest: the arguments are handled as a
\* request.  They carry no jsonrpc member, so the inner call journals the
\* version error twice and returns an error response with no id, which the
\* outer call wraps as its tool result and journals.
HandleRequestCalled(h) ==
  /\ Dispatches(h, "handleRequest")
  /\ Return(h,
       LogRequest(LogRequest(operationLogs, "Unsupported JSON-RPC version",
                             "Unsupported JSON-RPC version"),
                  "error", "Unsupported JSON-RPC version"),
       [jsonrpc |-> "2.0",
        error |-> [code |-> -32600,
                   message |-> "Unsupported JSON-RPC version"]])
  /\ UNCHANGED <<stdin, mode, logDir, multiInstance, gitCommand, exitTimer,
                 pendingChanges, changesReviewed, pushHistory, changesFile,
                 pushHistoryFile, reqCount, events>>

\* tools/call requests by name: listed tools, the documented git_pull, the
\* helpers of the class, and a name nothing answers to
DispatchNames ==
  {"get_pending_changes", "save_changes", "git_pull", "executeGitCommand",
   "handleRequest", "no_such_tool"}

DispatchLines ==
  {Call(n, Args(r, Undef, FilesOk, ContentOk, Undef, Undef)) :
     n \in DispatchNames, r \in RepoArgs}
    \cup {Call("executeGitCommand", ArgvArgs(<<"push", "origin", "main">>))}

NextDispatch ==
  \/ Receive({<<l>> : l \in DispatchLines}, MaxDispatchRequests)
  \/ \E h \in H : RejectRequest(h)
  \/ \E h \in H : SaveChanges(h)
  \/ \E h \in H : GetPendingChanges(h)
  \/ \E h \in H : GitPullBegin(h)
  \/ \E h \in H : GitPullSettles(h)
  \/ \E h \in H : ExecuteGitCommandCalled(h)
  \/ \E h \in H : ExecuteGitCommandSettles(h)
  \/ \E h \in H : HandleRequestCalled(h)

SpecDispatch == Init /\ [][NextDispatch]_vars

\* the step answers `Unknown tool: <name>` and nothing else happens
UnknownToolAnswer(h) ==
  /\ Answers(h)
  /\ IsError(Response)
  /\ Response.error.message = "Unknown tool"
  /\ handlers'[h].child = NoChild

\* C37: tools/call invokes an operation exactly for the names tools/list
\* returns and for the documented git_pull; every other name is answered
\* `Unknown tool` and starts nothing.
C37_DispatchedNamesAreListed ==
  [][\A h \in H :
       (/\ Decoded(h)
        /\ Cur(h).jsonrpc = "2.0"
        /\ Cur(h).method = "tools/call"
        /\ Cur(h).name # ""
        /\ handlers' # handlers)
         => (UnknownToolAnswer(h)
               <=> Cur(h).name \notin ListedTools \cup {"git_pull"})]_vars

\* ------------------------------------------------------------------ C38
\* The text of a request line on the wire, in two pieces that a chunk
\* boundary may separate, and the newline that ends it
Encode(line) == <<[part |-> 1, of |-> line], [part |-> 2, of |-> line]>>
Newline == [part |-> 0, of |-> Garbage]
IsNewline(b) == b.part = 0

\* the client writes one request line, carrying the next id
ClientWrites(lines, max) ==
  /\ reqCount < max
  /\ \E l \in lines :
       stdin' = stdin \o Encode(WithId(l, reqCount + 1)) \o <<Newline>>
  /\ reqCount' = reqCount + 1
  /\ UNCHANGED <<mode, logDir, multiInstance, gitCommand, pendingChanges,
                 changesReviewed, pushHistory, operationLogs, changesFile,
                 pushHistoryFile, handlers, stdout, events, exitTimer>>

\* String.prototype.trim on the chunk: newlines at both ends go
RECURSIVE TrimNewlineStart(_)
TrimNewlineStart(d) ==
  IF d = <<>> \/ ~IsNewline(Head(d)) THEN d ELSE TrimNewlineStart(Tail(d))

RECURSIVE TrimNewlineEnd(_)
TrimNewlineEnd(d) ==
  IF d = <<>> \/ ~IsNewline(d[Len(d)]) THEN d
  ELSE TrimNewlineEnd(SubSeq(d, 1, Len(d) - 1))

\* split('\n')
RECURSIVE SplitNewline(_)
SplitNewline(d) ==
  IF \A i \in DOMAIN d : ~IsNewline(d[i]) THEN <<d>>
  ELSE LET i == CHOOSE k \in DOMAIN d :
                  IsNewline(d[k]) /\ \A j \in 1..(k - 1) : ~IsNewline(d[j])
       IN <<SubSeq(d, 1, i - 1)>> \o SplitNewline(SubSeq(d, i + 1, Len(d)))

\* JSON.parse(line): the request, when the line is the whole text of one;
\* otherwise it throws
JsonParse(text) ==
  IF /\ Len(text) = 2
     /\ text[1].part = 1
     /\ text[2].part = 2
     /\ text[1].of = text[2].of
  THEN text[1].of
  ELSE WithId(Garbage, NullId)

\* data.toString().trim().split('\n'), the lines with `line.trim()` truthy,
\* each as JSON.parse takes it
DataLines(d) ==
  LET texts == SelectSeq(SplitNewline(TrimNewlineEnd(TrimNewlineStart(d))),
                         LAMBDA t : t # <<>>)
  IN [i \in DOMAIN texts |-> JsonParse(texts[i])]

\* a 'data' event: the stream delivers some of what is waiting, cut anywhere,
\* and the handler works on the lines of that chunk alone
Data ==
  /\ NoReady
  /\ stdin # <<>>
  /\ \E h \in H :
       /\ handlers[h].pc = "idle"
       /\ \A g \in H : g < h => handlers[g].pc # "idle"
       /\ \E n \in 1..Len(stdin) :
            LET lines == DataLines(SubSeq(stdin, 1, n))
            IN /\ stdin' = SubSeq(stdin, n + 1, Len(stdin))
               /\ handlers' = [handlers EXCEPT ![h] =
                    IF lines = <<>> THEN Idle
                    ELSE [pc |-> "ready", child |-> NoChild, lines |-> lines]]
  /\ UNCHANGED <<mode, logDir, multiInstance, gitCommand, pendingChanges,
                 changesReviewed, pushHistory, operationLogs, changesFile,
                 pushHistoryFile, reqCount, stdout, events, exitTimer>>

NextChunk ==
  \/ ClientWrites(SaveLines \cup ReviewLines \cup {Request("2.0", "ping")},
                  MaxChunkRequests)
  \/ Data
  \/ \E h \in H : MalformedLine(h)
  \/ \E h \in H : Ping(h)
  \/ \E h \in H : SaveChanges(h)
  \/ \E h \in H : GetPendingChanges(h)

SpecChunk == Init /\ [][NextChunk]_vars

\* everything written has been delivered and handled
Drained == stdin = <<>> /\ \A h \in H : handlers[h].pc = "idle"

\* C38: however the stream of well-formed request lines is cut into 'data'
\* events, no error response with id null is written for a piece of a line,
\* and once the stream is drained every request written has exactly one
\* response.
C38_ChunkingIsInvisible ==
  /\ \A k \in DOMAIN stdout : stdout[k].id # NullId
  /\ Drained =>
       \A id \in 1..reqCount :
         Cardinality({k \in DOMAIN stdout : stdout[k].id = id}) = 1

C5_OneReviewOnePush ==
  \A i, j \in DOMAIN events :
    (/\ i < j
     /\ events[i].e = "pass" /\ events[j].e = "pass"
     /\ events[i].pend > 0
     /\ \A k \in i..j : events[k].e # "clear")
      => \E k \in (i + 1)..(j - 1) :
           events[k].e = "review" /\ events[k].tool = "get_pending_changes"

\* ------------------------------------------------------------------- C6
\* C6: when git_push succeeds the pending list is empty in memory and in the
\* file, cleared_changes is the number of changes the push cleared, and
\* review_status_reset is true.
C6_SuccessReportsCleared ==
  [][\A h \in H :
       (Answers(h) /\ Cur(h).name = "git_push" /\ IsPushed(Response))
         => /\ pendingChanges' = <<>>
            /\ logDir =>
                 changesFile'[ToolContext(Cur(h).args).REPO_NAME] = File(<<>>)
            /\ Payload(Response).review_status_reset = TRUE
            /\ Payload(Response).cleared_changes = Len(pendingChanges)]_vars

\* ------------------------------------------------------------------- C7
\* C7: a step of a git_push call changes the pending list, in memory or in
\* the file, only when it is the push subprocess exiting with code 0.
C7_PendingRemovedOnlyOnExitZero ==
  [][\A h \in H :
       (/\ handlers[h].lines # <<>>
        /\ Cur(h).name = "git_push"
        /\ handlers'[h] # handlers[h]
        /\ ~(/\ Answers(h)
             /\ IsPushed(Response)
             /\ Payload(Response).exit_code = 0))
         => /\ pendingChanges' = pendingChanges
            /\ changesFile' = changesFile]_vars

\* a push has timed out and the changes are still pending
C7_Witness ==
  /\ Len(pendingChanges) > 0
  /\ \E i \in DOMAIN stdout :
       IsPushFailure(stdout[i]) /\ stdout[i].error.detail = "Command timed out"

\* ------------------------------------------------------------------- C8
\* C8: a git_push call that went through the gate is answered by the step
\* that prepends its one entry to the push history; the entry has success
\* exactly when the push exited 0 and otherwise carries the error; no other
\* step changes the history.
C8_OneHistoryEntryPerPush ==
  [][/\ \A h \in H :
          (handlers[h].pc \in {"status", "add", "add_catch", "commit", "push"}
             /\ Answers(h))
            => /\ Len(pushHistory') = Len(pushHistory) + 1
               /\ Tail(pushHistory') = pushHistory
               /\ LET e == pushHistory'[1]
                  IN /\ e.id = Cur(h).id
                     /\ e.message = Cur(h).args.message.v
                     /\ e.success <=>
                          (IsPushed(Response) /\ Payload(Response).exit_code = 0)
                     /\ e.success => (e.exit_code = Num(0) /\ e.error = "")
                     /\ ~e.success =>
                          /\ IsPushFailure(Response)
                          /\ e.error # ""
                          /\ e.error = Response.error.detail
     /\ (\A h \in H : ~(handlers[h].pc = "push" /\ Answers(h)))
          => pushHistory' = pushHistory]_vars

\* the history holds a successful push on top of a failed one
C8_Witness ==
  /\ Len(pushHistory) = 2
  /\ pushHistory[1].success
  /\ ~pushHistory[2].success
  /\ pushHistory[2].error # ""

\* ------------------------------------------------------------------- C9
\* the order of the awaits of git_push
Rank(pc) ==
  CASE pc = "status" -> 1
    [] pc = "add" -> 2
    [] pc = "add_catch" -> 3
    [] pc = "commit" -> 4
    [] pc = "push" -> 5
    [] OTHER -> 0

\* C9: whatever the outcome of status, add and commit, a git_push that went
\* through the gate goes on to the next await without answering, it starts
\* the push subprocess once, after commit, and it is answered only when the
\* push settles: with the success result or with the failure of the push.
C9_PushStartedOnceAndSoleFatal ==
  [][\A h \in H :
       handlers'[h] # handlers[h] =>
         /\ handlers[h].pc \in {"status", "add", "add_catch", "commit"}
              => /\ Rank(handlers'[h].pc) > Rank(handlers[h].pc)
                 /\ handlers'[h].child.cmd = CmdAt(handlers'[h].pc)
                 /\ handlers'[h].lines = handlers[h].lines
                 /\ stdout' = stdout
         /\ handlers'[h].pc = "push"
              => handlers[h].pc = "commit" /\ handlers'[h].child.cmd = "push"
         /\ handlers[h].pc = "push"
              => /\ Answers(h)
                 /\ IsPushed(Response) \/ IsPushFailure(Response)
         /\ (Answers(h) /\ (IsPushed(Response) \/ IsPushFailure(Response)))
              => handlers[h].pc = "push"]_vars

\* a git_push that went through the gate awaits its push subprocess
C9_Witness ==
  \E h \in H :
    /\ handlers[h].pc = "push"
    /\ handlers[h].child.cmd = "push"
    /\ \E k \in DOMAIN events :
         events[k].e = "pass" /\ events[k].id = Cur(h).id

\* -------------------------------------------------------------- SpecCap
\* A run of valid save_changes calls on an empty pending list
CapChunks == {<<l>> : l \in SaveLines}

InitCap == Init /\ pendingChanges = <<>>

NextCap ==
  \/ Receive(CapChunks, MaxCapRequests)
  \/ \E h \in H : SaveChanges(h)

SpecCap == InitCap /\ [][NextCap]_vars

\* ------------------------------------------------------------------ C10
\* C10: after n valid save_changes calls the pending list holds min(n, 50)
\* changes, newest first: the i-th is the change of call n - i + 1, so that
\* past the cap the oldest changes are the ones missing.
C10_NewestFirstCapped ==
  LET n == Len(stdout)
  IN /\ Len(pendingChanges) = Min(n, 50)
     /\ \A i \in DOMAIN pendingChanges : pendingChanges[i].id = n - i + 1

\* cap + 1 saves: 50 changes are kept, the second-saved is the oldest
C10_Witness ==
  /\ Len(stdout) = 51
  /\ Len(pendingChanges) = 50
  /\ pendingChanges[1].id = 51
  /\ pendingChanges[50].id = 2

====
